---- MODULE Spec2Model ----
(***************************************************************************)
(* The agent protocol connection layer of AionUi: CodexMcpConnection (the  *)
(* JSON-RPC correlator, pause gate and network-retry policy of the Codex   *)
(* backend) and AcpConnection (the correlator and timeout gate of the ACP  *)
(* backends).  Each connection is a state machine; one action per public   *)
(* method frame kind or timer callback.                           *)
(***************************************************************************)
EXTENDS Integers, Sequences, FiniteSets, TLC

\* ------------------------------------------------------------------ bounds
MaxCalls == 2        \* request() / sendRequest() calls per behaviour
MaxWaits == 1        \* waitForPermission() calls per behaviour
MaxPerms == 2        \* session/request_permission frames per behaviour
MaxResponds == 2     \* response frames respondElicitation() writes per behaviour
MaxLen == 2          \* tokens of an error text
MaxClassify == 2     \* classifications of one error text per behaviour
MaxEvents == 2       \* notifications the agent is handed per behaviour
MaxSteps == 4        \* events the message processor handles per behaviour
MaxTurns == 2        \* sendMessage() calls of an AcpAgent per behaviour
MaxChunks == 3       \* message chunks an AcpAgent is handed per behaviour
MaxBytes == 4        \* bytes a child writes to stdout per behaviour
MaxTime == 3         \* how long a behaviour lasts, in ticks

\* --------------------------------------------------------- program constants
maxRetries == 3      \* CodexErrorService.maxRetries
PromptTimeoutMs == 120000     \* AcpConnection: timeout of session/prompt
RequestTimeoutMs == 60000     \* AcpConnection: timeout of any other request
PermissionTimeoutMs == 30000  \* AcpAgent: auto-timeout of a permission request
sessionMaxRetries == 3        \* CodexMcpAgent.newSession: const maxRetries
BackoffBaseMs == 2000         \* CodexMcpAgent.newSession: the first back-off delay
TickMs == RequestTimeoutMs

\* The failing requests it takes to use up the retries and fail once more
MaxFailures == maxRetries + 1

\* Call numbers: enough of them for every specification
Calls == 1..(MaxCalls + MaxFailures)
NoCall == <<>>
CallIds == {<<"a">>}                     \* codex call ids, as token sequences
ReqIds == {0}                            \* JSON-RPC ids of server requests
Methods == {"tools/call"}                \* methods given to request()
Decisions == {"approved", "denied"}

\* ------------------------------------------------------------- error texts
\* An error text is a sequence of tokens; includes() is contiguous
\* sub-sequence, toLowerCase() maps each token.
T_app == <<"invalid", "params">>
T_cf == <<"unexpected", "status", "403", "Cloudflare">>
T_etimedout == <<"connect", "ETIMEDOUT">>
ErrTexts == {T_app, T_cf, T_etimedout}
T_refused == <<"connect", "ECONNREFUSED">>
T_net == <<"network", "error">>
\* Network errors of every kind: blocked, timeout, refused, unknown
NetTexts == {T_cf, T_etimedout, T_refused, T_net}

LowerTok(t) ==
  CASE t = "Cloudflare" -> "cloudflare"
    [] t = "ETIMEDOUT" -> "etimedout"
    [] t = "ECONNREFUSED" -> "econnrefused"
    [] t = "DNS_PROBE_FINISHED_NXDOMAIN" -> "dns_probe_finished_nxdomain"
    [] OTHER -> t

toLowerCase(s) == [i \in 1..Len(s) |-> LowerTok(s[i])]

includes(s, pat) ==
  \E i \in 1..(Len(s) - Len(pat) + 1) : SubSeq(s, i, i + Len(pat) - 1) = pat

networkErrorPatterns ==
  { <<"unexpected", "status", "403">>, <<"Cloudflare">>,
    <<"you", "have", "been", "blocked">>, <<"chatgpt.com">>,
    <<"network", "error">>, <<"connection", "refused">>, <<"timeout">>,
    <<"ECONNREFUSED">>, <<"ETIMEDOUT">>, <<"DNS_PROBE_FINISHED_NXDOMAIN">> }

isNetworkRelatedError(errorMsg) ==
  \E pattern \in networkErrorPatterns :
    includes(toLowerCase(errorMsg), toLowerCase(pattern))

\* A classification that knows the error codes' names only
fromNetworkErrorNarrow(errorMsg) ==
  LET lowerMsg == toLowerCase(errorMsg) IN
  IF includes(lowerMsg, <<"403">>) /\ includes(lowerMsg, <<"cloudflare">>)
    THEN "CLOUDFLARE_BLOCKED"
  ELSE IF includes(lowerMsg, <<"etimedout">>) THEN "NETWORK_TIMEOUT"
  ELSE IF includes(lowerMsg, <<"econnrefused">>) THEN "NETWORK_REFUSED"
  ELSE "NETWORK_UNKNOWN"

\* fromNetworkError: the code of the classified error
fromNetworkError(errorMsg) ==
  LET lowerMsg == toLowerCase(errorMsg) IN
  IF includes(lowerMsg, <<"403">>) /\ includes(lowerMsg, <<"cloudflare">>)
    THEN "CLOUDFLARE_BLOCKED"
  ELSE IF includes(lowerMsg, <<"timeout">>) \/ includes(lowerMsg, <<"etimedout">>)
    THEN "NETWORK_TIMEOUT"
  ELSE IF includes(lowerMsg, <<"connection", "refused">>)
          \/ includes(lowerMsg, <<"econnrefused">>)
    THEN "NETWORK_REFUSED"
  ELSE "NETWORK_UNKNOWN"

retryableErrors == {"NETWORK_TIMEOUT", "NETWORK_UNKNOWN"}

\* A retry decision that does not count the retries
shouldRetryAlways(code, count) == code \in retryableErrors

shouldRetry(code, count) == count < maxRetries /\ code \in retryableErrors

\* handleError: the i18n key chosen for the code, passed through t()
userMessage(code) ==
  CASE code = "CLOUDFLARE_BLOCKED" -> <<"t", "codex.network.cloudflare_blocked">>
    [] code = "NETWORK_TIMEOUT" -> <<"t", "codex.network.network_timeout">>
    [] code = "NETWORK_REFUSED" -> <<"t", "codex.network.connection_refused">>
    [] OTHER -> <<"t", "codex.error.generic">>

getNetworkErrorType(errorCode) ==
  CASE errorCode = "CLOUDFLARE_BLOCKED" -> "cloudflare_blocked"
    [] errorCode = "NETWORK_TIMEOUT" -> "network_timeout"
    [] errorCode = "CONNECTION_REFUSED" -> "connection_refused"
    [] OTHER -> "unknown"

\* ---------------------------------------------------------------- state
VARIABLES
  sys,                 \* which connection class this behaviour exercises
  child,               \* this.child !== null
  proc,                \* the spawned process: "none", "running", "dead"
                       \* (exited on its own), "stopped" (killed by stop())
  nextId,              \* this.nextId
  pending,             \* this.pending: id -> the request() call it belongs to
  elicitationMap,      \* this.elicitationMap: call id -> JSON-RPC id
  isPaused,            \* this.isPaused
  pausedRequests,      \* this.pausedRequests, as the sequence of calls
  retryCount,          \* this.retryCount
  isNetworkError,      \* this.isNetworkError
  retries,             \* scheduleRetry timers not yet fired
  ncalls,              \* request() calls so far; call c is the c-th
  method,              \* call -> method
  origId,              \* call -> the id request() allocated (the closure's id)
  timer,               \* call -> "unset", "armed", "cleared", "fired"
  hist,                \* call -> what happened to it: events and callbacks
  stdin,               \* frames written to child.stdin
  permissionResolvers, \* this.permissionResolvers: call id -> waitForPermission call
  waits,               \* waitForPermission call -> [callId, timer, outcome]
  last                 \* "embedded" when the last step settled a request with
                       \* a response whose result embeds an error, else ""

codexVars ==
  << child, proc, nextId, pending, elicitationMap, isPaused,
     pausedRequests, retryCount, isNetworkError, retries, ncalls, method,
     origId, timer, hist, stdin, permissionResolvers, waits >>

\* AcpConnection
VARIABLES
  aChild,              \* this.child !== null
  aProc,               \* the spawned process: "none", "running", "dead"
  nextRequestId,       \* this.nextRequestId; request k carries id k
  pendingRequests,     \* this.pendingRequests: id -> PendingRequest
  sessionId,           \* this.sessionId !== null
  timers,              \* armed setTimeout timers of requests
  aHist,               \* request id -> callbacks invoked on its promise
  perms,               \* permission request id -> "waiting" / "answered"
  permArmedAt,         \* waiting permission request -> when its 30 s timer was armed
  aStdin,              \* the frames written to child.stdin, as a set
  now                  \* Date.now()

acpVars ==
  << aChild, aProc, nextRequestId, pendingRequests, sessionId, timers, aHist,
     perms, permArmedAt, aStdin, now >>

\* Error classification
VARIABLES
  cls                  \* the error text under classification and what
                       \* fromNetworkError / isNetworkRelatedError returned

\* CodexMcpAgent
VARIABLES
  ag                   \* the agent's running operation, the outcome of the
                       \* last finished one, the notifications it was handed
                       \* (seen) and the events its consumer got

\* CodexMessageProcessor, with the emitter it writes to and the message store
VARIABLES
  mp                   \* the processor's fields, the envelopes handed to the
                       \* emitter (sink), the stored messages (store) and the
                       \* addOrUpdateMessage calls waiting for chat.history

\* AcpAgent
VARIABLES
  acpAgent             \* loadingMessageId, currentAssistantMsgId, the turn
                       \* in progress and the events emitted per turn

\* The stdout 'data' handler of a connection
VARIABLES
  rd                   \* the bytes the child wrote, how they are cut into
                       \* chunks, the handler's buffer and the lines delivered

uiVars == << mp, acpAgent, rd >>

vars == << sys, codexVars, last, acpVars, cls, ag, uiVars >>

\* What a CodexMcpConnection step leaves alone
CodexFrame == UNCHANGED << sys, acpVars, cls, ag, uiVars >>

\* What an AcpConnection step leaves alone
AcpFrame == UNCHANGED << sys, codexVars, last, cls, ag, uiVars >>

\* ------------------------------------------------------------ helpers
\* CodexMessageProcessor after construction, an empty sink and an empty store
NoProcessor ==
  [currentLoadingId |-> 0, reasoningMsgId |-> 0, currentReason |-> <<>>,
   uuids |-> 0, sink |-> <<>>, store |-> <<>>, convInDb |-> TRUE,
   loading |-> <<>>, calls |-> 0, log |-> <<>>]

\* AcpAgent after construction
NoAcpAgent ==
  [loadingMessageId |-> <<>>, currentAssistantMsgId |-> <<>>, uuids |-> 0,
   turn |-> 0, prompt |-> "none", chunks |-> 0, loadingOf |-> <<>>,
   out |-> <<>>]

\* A stdout handler before the child wrote anything
NoReader == [stream |-> <<>>, pos |-> 0, buffer |-> <<>>, lines |-> <<>>]

UiInit == mp = NoProcessor /\ acpAgent = NoAcpAgent /\ rd = NoReader

\* CodexMcpAgent after construction: no operation runs, nothing was delivered
NoAgent ==
  [op |-> "idle", attempt |-> 0, call |-> 0, done |-> "none",
   result |-> "none", won |-> FALSE, why |-> "", seen |-> 0, events |-> <<>>,
   conversationId |-> <<>>, convs |-> 0, convId |-> <<>>, conv |-> <<>>,
   delay |-> 0]

Ev(ev, why, msg) == [ev |-> ev, why |-> why, msg |-> msg]
StreamError(msg) == Ev("stream_error", "", msg)
Reject(why, msg) == Ev("reject", why, msg)
Resolve == Ev("resolve", "", <<>>)

MapDel(f, k) == [x \in DOMAIN f \ {k} |-> f[x]]
MapSet(f, k, v) == [x \in DOMAIN f \cup {k} |-> IF x = k THEN v ELSE f[x]]
EmptyMap == [x \in {} |-> 0]

Range(s) == {s[i] : i \in DOMAIN s}

RECURSIVE Filter(_, _)
Filter(s, c) ==
  IF s = <<>> THEN <<>>
  ELSE IF Head(s) = c THEN Filter(Tail(s), c)
  ELSE <<Head(s)>> \o Filter(Tail(s), c)

Callbacks(h) == SelectSeq(h, LAMBDA e : e.ev \in {"resolve", "reject"})

ReqFrame(id, c) == [t |-> "req", id |-> id, call |-> c, k |-> method[c]]
RespFrame(id, d) == [t |-> "resp", id |-> id, call |-> 0, k |-> d]

\* child.stdin.write(line): nothing is written without a child
Write(out, frame) == IF child THEN Append(out, frame) ELSE out

\* clearTimeout(p.timeout)
clearTimeout(tm, c) ==
  [tm EXCEPT ![c] = IF tm[c] = "armed" THEN "cleared" ELSE tm[c]]

\* ------------------------------------------------------------ Codex: init
CodexInit ==
  /\ child = FALSE
  /\ proc = "none"
  /\ nextId = 0
  /\ pending = EmptyMap
  /\ elicitationMap = EmptyMap
  /\ isPaused = FALSE
  /\ pausedRequests = <<>>
  /\ retryCount = 0
  /\ isNetworkError = FALSE
  /\ retries = {}
  /\ ncalls = 0
  /\ method = [c \in Calls |-> ""]
  /\ origId = [c \in Calls |-> 0]
  /\ timer = [c \in Calls |-> "unset"]
  /\ hist = [c \in Calls |-> <<>>]
  /\ stdin = <<>>
  /\ permissionResolvers = EmptyMap
  /\ waits = <<>>
  /\ last = ""

\* CodexMcpAgent holds the connection from its start() to its stop(): the
\* connection's methods are called only in between
InUse == proc \in {"running", "dead"}

\* CodexMcpConnection.start: spawn the child
start ==
  /\ CodexFrame
  /\ proc = "none"
  /\ child' = TRUE
  /\ proc' = "running"
  /\ last' = ""
  /\ UNCHANGED << nextId, pending, elicitationMap, isPaused, pausedRequests,
                  retryCount, isNetworkError, retries, ncalls, method, origId,
                  timer, hist, stdin, permissionResolvers, waits >>

\* The loop of stop() and handleProcessExit(): reject every pending request
RejectAll(h, why) ==
  [c \in Calls |->
     IF c \in Range(pending) THEN Append(h[c], Reject(why, <<>>)) ELSE h[c]]

ClearAllTimers(tm) ==
  [c \in Calls |->
     IF c \in Range(pending) /\ tm[c] = "armed" THEN "cleared" ELSE tm[c]]

\* CodexMcpConnection.stop; CodexMcpAgent.stop() drops the connection after it
stop ==
  /\ CodexFrame
  /\ InUse
  /\ child' = FALSE
  /\ proc' = "stopped"
  /\ hist' = RejectAll(hist, "closed")
  /\ timer' = ClearAllTimers(timer)
  /\ pending' = EmptyMap
  /\ elicitationMap' = EmptyMap
  /\ last' = ""
  /\ UNCHANGED << nextId, isPaused, pausedRequests, retryCount,
                  isNetworkError, retries, ncalls, method, origId, stdin, permissionResolvers, waits >>

\* A request() that never queues
NeverQueue == FALSE

\* if (this.isPaused): whether request() queues instead of sending
ShouldQueue == isPaused

\* How many request() calls a behaviour makes
CallLimit == IF sys \in {"retry", "agent", "session", "cycle"} THEN MaxFailures ELSE MaxCalls

\* The body of request(method, params, timeoutMs): what it does to the
\* connection
requestCall(m) ==
  /\ InUse
  /\ ncalls < CallLimit
  /\ LET c == ncalls + 1
         id == nextId
     IN /\ ncalls' = c
        /\ nextId' = nextId + 1
        /\ method' = [method EXCEPT ![c] = m]
        /\ origId' = [origId EXCEPT ![c] = id]
        /\ timer' = [timer EXCEPT ![c] = "armed"]
        /\ last' = ""
        /\ IF ShouldQueue
             THEN \* queue the request; nothing is registered or written
                  /\ pausedRequests' = Append(pausedRequests, c)
                  /\ UNCHANGED << pending, stdin, hist >>
             ELSE /\ pending' = MapSet(pending, id, c)
                  /\ UNCHANGED pausedRequests
                  /\ IF child
                       THEN /\ stdin' = Append(stdin, [t |-> "req", id |-> id,
                                                       call |-> c, k |-> m])
                            /\ UNCHANGED hist
                       ELSE /\ hist' = [hist EXCEPT
                                         ![c] = Append(@, Reject("stdin", <<>>))]
                            /\ UNCHANGED stdin
  /\ UNCHANGED << child, proc, elicitationMap, isPaused, retryCount,
                  isNetworkError, retries, permissionResolvers, waits >>

\* CodexMcpConnection.request(method, params, timeoutMs), called directly
request(m) == CodexFrame /\ requestCall(m)

\* A timeout callback that removes the entry after its own
TimeoutIdNext(c) == origId[c] + 1

\* The id the timeout callback of call c removes from the pending map
TimeoutId(c) == origId[c]

\* The setTimeout callback armed by request() for call c
requestTimeout(c) ==
  /\ CodexFrame
  /\ c <= ncalls
  /\ timer[c] = "armed"
  /\ timer' = [timer EXCEPT ![c] = "fired"]
  /\ pending' = MapDel(pending, TimeoutId(c))
  /\ pausedRequests' = Filter(pausedRequests, c)
  /\ hist' = [hist EXCEPT
               ![c] = @ \o << StreamError(<<"Request timed out", method[c]>>),
                              Reject("timeout", <<>>) >>]
  /\ last' = ""
  /\ UNCHANGED << child, proc, nextId, elicitationMap, isPaused,
                  retryCount, isNetworkError, retries, ncalls, method, origId,
                  stdin, permissionResolvers, waits >>

\* handleNetworkError + scheduleRetry, for the request of call c
handleNetworkError(errorMsg, c) ==
  LET code == fromNetworkError(errorMsg)
      type == getNetworkErrorType(code)
      note == Ev("network_error", type, <<>>)
  IN IF shouldRetry(code, retryCount)
       THEN /\ retryCount' = retryCount + 1
            /\ retries' = retries \cup {[call |-> c, type |-> type]}
            /\ hist' = [hist EXCEPT ![c] = Append(@, note)]
            /\ UNCHANGED isNetworkError
       ELSE /\ isNetworkError' = TRUE
            /\ hist' = [hist EXCEPT
                         ![c] = @ \o << note, StreamError(userMessage(code)),
                                        Reject("network", userMessage(code)) >>]
            /\ UNCHANGED << retryCount, retries >>

\* if (res.error) { ... }: the branch for a JSON-RPC error object
protocolError(errorMsg, c) ==
  IF isNetworkRelatedError(errorMsg)
    THEN handleNetworkError(errorMsg, c)
    ELSE /\ hist' = [hist EXCEPT
                      ![c] = @ \o << StreamError(errorMsg),
                                     Reject("error", errorMsg) >>]
         /\ UNCHANGED << retryCount, isNetworkError, retries >>

\* An embedded-error branch without the network-error test
embeddedErrorPlain(resultErrorMsg, c) ==
  /\ hist' = [hist EXCEPT
               ![c] = @ \o << StreamError(resultErrorMsg),
                              Reject("error", resultErrorMsg) >>]
  /\ UNCHANGED << retryCount, isNetworkError, retries >>

\* else if (res.result && typeof res.result === 'object' && 'error' in res.result)
\* { ... }: the branch for an error embedded in the result
embeddedError(resultErrorMsg, c) ==
  IF isNetworkRelatedError(resultErrorMsg)
    THEN handleNetworkError(resultErrorMsg, c)
    ELSE /\ hist' = [hist EXCEPT
                      ![c] = @ \o << StreamError(resultErrorMsg),
                                     Reject("error", resultErrorMsg) >>]
         /\ UNCHANGED << retryCount, isNetworkError, retries >>

\* A lookup that takes the entry of the next id
LookupNext(id) == id + 1

\* this.pending.get(res.id)
Lookup(id) == id

\* handleIncoming, response branch: kind is "ok", "error" (res.error) or
\* "embedded" (res.result.error)
response(id, kind, text) ==
  /\ CodexFrame
  /\ proc = "running"
  /\ IF Lookup(id) \notin DOMAIN pending
       THEN /\ UNCHANGED codexVars
            /\ last' = ""
       ELSE LET c == pending[Lookup(id)] IN
            /\ last' = IF kind = "embedded" THEN kind ELSE ""
            /\ pending' = MapDel(pending, Lookup(id))
            /\ timer' = clearTimeout(timer, c)
            /\ CASE kind = "error" -> protocolError(text, c)
                 [] kind = "embedded" -> embeddedError(text, c)
                 [] OTHER -> /\ hist' = [hist EXCEPT ![c] = Append(@, Resolve)]
                             /\ UNCHANGED << retryCount, isNetworkError, retries >>
            /\ UNCHANGED << child, proc, nextId, elicitationMap,
                            isPaused, pausedRequests, ncalls, method, origId,
                            stdin, permissionResolvers, waits >>

\* The setTimeout callback of scheduleRetry
retryTimeout(r) ==
  /\ CodexFrame
  /\ r \in retries
  /\ retries' = retries \ {r}
  /\ hist' = [hist EXCEPT
               ![r.call] = @ \o << Ev("network_error", "retry_attempt", <<>>),
                                   StreamError(<<"Network error after retries", r.type>>),
                                   Reject("retry", <<r.type>>) >>]
  /\ last' = ""
  /\ UNCHANGED << child, proc, nextId, pending, elicitationMap,
                  isPaused, pausedRequests, retryCount, isNetworkError, ncalls,
                  method, origId, timer, stdin, permissionResolvers, waits >>

\* handleIncoming, event branch, for the frames that can pause the gate.
\* kind: "patch" / "exec" (codex/event with msg.type apply_patch_approval_request
\* / exec_approval_request), "elicit" (elicitation/create), "other" (any other
\* method); hasId: the frame carries a JSON-RPC id; callId: NoCall when the
\* frame carries no call id.
approvalRequest(kind, hasId, reqId, callId) ==
  /\ CodexFrame
  /\ proc = "running"
  /\ last' = ""
  /\ IF kind \in {"patch", "exec", "elicit"} /\ hasId
       THEN /\ isPaused' = TRUE
            /\ elicitationMap' = IF callId # NoCall
                                   THEN MapSet(elicitationMap, callId, reqId)
                                   ELSE elicitationMap
       ELSE UNCHANGED << isPaused, elicitationMap >>
  /\ UNCHANGED << child, proc, nextId, pending, pausedRequests,
                  retryCount, isNetworkError, retries, ncalls, method, origId,
                  timer, hist, stdin, permissionResolvers, waits >>

\* A replay that reuses the id request() drew when the request was queued
ResumeIdStale(k) == origId[pausedRequests[k]]

\* The id resumeRequests() gives the k-th queued request
ResumeId(k) == nextId + k - 1

\* resumeRequests(): the new values of isPaused, pausedRequests, nextId,
\* pending and stdin
resumeRequests ==
  IF ~isPaused
    THEN UNCHANGED << isPaused, pausedRequests, nextId, pending, stdin >>
    ELSE LET n == Len(pausedRequests)
             ids == {ResumeId(k) : k \in 1..n}
         IN /\ isPaused' = FALSE
            /\ pausedRequests' = <<>>
            /\ nextId' = nextId + n
            /\ pending' =
                 [i \in DOMAIN pending \cup ids |->
                    IF i \in ids
                      THEN pausedRequests[CHOOSE k \in 1..n : ResumeId(k) = i]
                      ELSE pending[i]]
            /\ stdin' =
                 IF child
                   THEN stdin \o [k \in 1..n |->
                                    ReqFrame(ResumeId(k), pausedRequests[k])]
                   ELSE stdin

\* CodexMcpConnection.waitForPermission(callId)
waitForPermission(callId) ==
  /\ CodexFrame
  /\ InUse
  /\ Len(waits) < MaxWaits
  /\ waits' = Append(waits, [callId |-> callId, timer |-> "armed",
                             outcome |-> "waiting"])
  /\ permissionResolvers' = MapSet(permissionResolvers, callId, Len(waits) + 1)
  /\ last' = ""
  /\ UNCHANGED << child, proc, nextId, pending, elicitationMap,
                  isPaused, pausedRequests, retryCount, isNetworkError,
                  retries, ncalls, method, origId, timer, hist, stdin >>

\* The 30 s setTimeout callback of waitForPermission call w
permissionTimeout(w) ==
  /\ CodexFrame
  /\ w \in DOMAIN waits
  /\ waits[w].timer = "armed"
  /\ last' = ""
  /\ IF waits[w].callId \in DOMAIN permissionResolvers
       THEN /\ permissionResolvers' = MapDel(permissionResolvers, waits[w].callId)
            /\ waits' = [waits EXCEPT ![w].timer = "fired",
                                      ![w].outcome = "timeout"]
       ELSE /\ waits' = [waits EXCEPT ![w].timer = "fired"]
            /\ UNCHANGED permissionResolvers
  /\ UNCHANGED << child, proc, nextId, pending, elicitationMap,
                  isPaused, pausedRequests, retryCount, isNetworkError,
                  retries, ncalls, method, origId, timer, hist, stdin >>

\* CodexMcpConnection.resolvePermission(callId, approved)
resolvePermission(callId, approved) ==
  /\ CodexFrame
  /\ InUse
  /\ last' = ""
  /\ IF callId \in DOMAIN permissionResolvers
       THEN /\ permissionResolvers' = MapDel(permissionResolvers, callId)
            /\ waits' = [waits EXCEPT
                          ![permissionResolvers[callId]].outcome =
                             IF approved THEN "approved" ELSE "denied"]
       ELSE UNCHANGED << permissionResolvers, waits >>
  /\ resumeRequests
  /\ UNCHANGED << child, proc, elicitationMap, retryCount,
                  isNetworkError, retries, ncalls, method, origId, timer, hist >>

\* callId.replace(/^patch_/, '').replace(/^elicitation_/, '')
StripPrefix(s, p) == IF s # <<>> /\ Head(s) = p THEN Tail(s) ELSE s
normalize(callId) == StripPrefix(StripPrefix(callId, "patch_"), "elicitation_")

\* this.elicitationMap.get(k), with undefined as -1
MapGet(k) == IF k \in DOMAIN elicitationMap THEN elicitationMap[k] ELSE -1

\* a || b on JSON-RPC ids: a when it is truthy (defined and not 0)
OrElse(a, b) == IF a # -1 /\ a # 0 THEN a ELSE b

\* CodexMcpConnection.respondElicitation(callId, decision)
respondElicitation(callId, decision) ==
  LET normalized == normalize(callId)
      reqId == OrElse(MapGet(normalized), MapGet(callId))
  IN /\ CodexFrame
     /\ InUse
     /\ last' = ""
     /\ IF reqId = -1
          THEN UNCHANGED << stdin, elicitationMap >>
          ELSE /\ stdin' = Write(stdin, RespFrame(reqId, decision))
               /\ elicitationMap' = MapDel(elicitationMap, normalized)
     /\ UNCHANGED << child, proc, nextId, pending, isPaused,
                     pausedRequests, retryCount, isNetworkError, retries,
                     ncalls, method, origId, timer, hist,
                     permissionResolvers, waits >>

\* An 'exit' handler that passes on exit codes above 1 only
ExitHandledAboveOne(code) == code > 1

\* Whether the 'exit' handler registered by start() calls handleProcessExit
\* (code: 0, 1, or -1 for null, a termination by signal)
ExitHandled(code) == code # 0 /\ code # -1

\* The child's 'exit' event, and handleProcessExit
processExit(code) ==
  /\ CodexFrame
  /\ proc = "running"
  /\ proc' = "dead"
  /\ last' = ""
  /\ IF ExitHandled(code)
       THEN /\ hist' = RejectAll(hist, "exit")
            /\ timer' = ClearAllTimers(timer)
            /\ pending' = EmptyMap
            /\ elicitationMap' = EmptyMap
            /\ child' = FALSE
       ELSE UNCHANGED << hist, timer, pending, elicitationMap, child >>
  /\ UNCHANGED << nextId, isPaused, pausedRequests, retryCount,
                  isNetworkError, retries, ncalls, method, origId, stdin, permissionResolvers, waits >>

\* A reset that clears the retry counter only
resetRetryCountOnly ==
  /\ CodexFrame
  /\ InUse
  /\ retryCount # 0 \/ isNetworkError
  /\ retryCount' = 0
  /\ last' = ""
  /\ UNCHANGED << child, proc, nextId, pending, elicitationMap, isNetworkError,
                  isPaused, pausedRequests, retries, ncalls, method, origId,
                  timer, hist, stdin, permissionResolvers, waits >>

\* hasNetworkError()
hasNetworkError == isNetworkError

\* resetNetworkError()
resetNetworkError ==
  /\ CodexFrame
  /\ InUse
  /\ retryCount # 0 \/ isNetworkError
  /\ retryCount' = 0
  /\ isNetworkError' = FALSE
  /\ last' = ""
  /\ UNCHANGED << child, proc, nextId, pending, elicitationMap,
                  isPaused, pausedRequests, retries, ncalls, method, origId,
                  timer, hist, stdin, permissionResolvers, waits >>

\* getDiagnostics().isConnected (child.killed is only set by stop(), which
\* also drops the child)
isConnected == child

\* The ids a response frame may carry: every pending id, and one that is not
ResponseIds == DOMAIN pending \cup {nextId}

\* The correlator and the pause gate: the operations that register, settle,
\* queue and replay requests
CodexNext ==
  \/ start
  \/ stop
  \/ \E m \in Methods : request(m)
  \/ \E c \in Calls : requestTimeout(c)
  \/ \E id \in ResponseIds : response(id, "ok", <<>>)
  \/ \E id \in ResponseIds, kind \in {"error", "embedded"}, text \in ErrTexts :
       response(id, kind, text)
  \/ \E r \in retries : retryTimeout(r)
  \/ \E kind \in {"patch", "exec", "elicit"}, reqId \in ReqIds,
        callId \in CallIds \cup {NoCall} :
       approvalRequest(kind, TRUE, reqId, callId)
  \/ \E kind \in {"patch", "elicit", "other"} :
       approvalRequest(kind, kind = "other", 0, NoCall)
  \/ \E callId \in CallIds, approved \in BOOLEAN : resolvePermission(callId, approved)
  \/ \E code \in {0, 1, -1} : processExit(code)

\* ================================================================ AcpConnection
Max(a, b) == IF a >= b THEN a ELSE b

\* pendingRequest.timeoutId === undefined
NoTimer == [id |-> -1, kind |-> "none", at |-> 0, delay |-> 0]

\* setTimeout(handler, delay) called at time `at` for request id
Timer(id, kind, at, delay) == [id |-> id, kind |-> kind, at |-> at, delay |-> delay]

AcpIds == 0..(MaxCalls - 1)
PermIds == 1..MaxPerms
AcpMethods == {"session/new", "session/prompt"}

AcpInit ==
  /\ aChild = FALSE
  /\ aProc = "none"
  /\ nextRequestId = 0
  /\ pendingRequests = EmptyMap
  /\ sessionId = FALSE
  /\ timers = {}
  /\ aHist = [i \in AcpIds |-> <<>>]
  /\ perms = <<>>
  /\ permArmedAt = EmptyMap
  /\ aStdin = {}
  /\ now = 0

\* A timer is due
Due(t) == now >= t.at + t.delay

\* Time passes, while something waits for it; a timer that is due fires before
\* the clock moves on
Tick ==
  /\ AcpFrame
  /\ now < MaxTime * TickMs
  /\ timers # {} \/ pendingRequests # EmptyMap \/ permArmedAt # EmptyMap
  /\ \A t \in timers : ~Due(t)
  /\ \A p \in DOMAIN permArmedAt : now < permArmedAt[p] + PermissionTimeoutMs
  /\ now' = now + TickMs
  /\ UNCHANGED << aChild, aProc, nextRequestId, pendingRequests, sessionId,
                  timers, aHist, perms, permArmedAt, aStdin >>

\* AcpConnection.connect: spawn the child and install the handlers; AcpAgent
\* connects its connection once
connect ==
  /\ AcpFrame
  /\ aProc = "none"
  /\ aChild' = TRUE
  /\ aProc' = "running"
  /\ UNCHANGED << nextRequestId, pendingRequests, sessionId, timers, aHist,
                  perms, permArmedAt, aStdin, now >>

\* const timeoutDuration = method === 'session/prompt' ? 120000 : 60000
timeoutDuration(m) == IF m = "session/prompt" THEN PromptTimeoutMs ELSE RequestTimeoutMs

\* AcpConnection.sendRequest(method), reached through newSession() and
\* sendPrompt(); sendPrompt() throws without a session, and AcpAgent issues
\* requests only on a connection that has a child
sendRequest(m) ==
  /\ AcpFrame
  /\ aChild
  /\ nextRequestId < MaxCalls
  /\ m = "session/prompt" => sessionId
  /\ LET id == nextRequestId
         initialTimeout == Timer(id, "initial", now, timeoutDuration(m))
     IN /\ nextRequestId' = id + 1
        /\ timers' = timers \cup {initialTimeout}
        /\ pendingRequests' =
             MapSet(pendingRequests, id,
                    [method |-> m, isPaused |-> FALSE, timeoutId |-> initialTimeout,
                     startTime |-> now, timeoutDuration |-> timeoutDuration(m)])
        /\ aStdin' = IF aChild
                       THEN aStdin \cup {[t |-> "req", id |-> id, k |-> m]}
                       ELSE aStdin
  /\ UNCHANGED << aChild, aProc, sessionId, aHist, perms, permArmedAt, now >>

\* The handler createTimeoutHandler() arms in sendRequest
initialTimeout(t) ==
  /\ AcpFrame
  /\ t \in timers /\ t.kind = "initial" /\ Due(t)
  /\ timers' = timers \ {t}
  /\ IF t.id \in DOMAIN pendingRequests /\ ~pendingRequests[t.id].isPaused
       THEN /\ pendingRequests' = MapDel(pendingRequests, t.id)
            /\ aHist' = [aHist EXCEPT ![t.id] = Append(@, Reject("timeout", <<>>))]
       ELSE UNCHANGED << pendingRequests, aHist >>
  /\ UNCHANGED << aChild, aProc, nextRequestId, sessionId, perms, permArmedAt,
                  aStdin, now >>

\* The handler resumeRequestTimeout arms
resumedTimeout(t) ==
  /\ AcpFrame
  /\ t \in timers /\ t.kind = "resumed" /\ Due(t)
  /\ timers' = timers \ {t}
  /\ IF t.id \in DOMAIN pendingRequests /\ ~pendingRequests[t.id].isPaused
       THEN /\ pendingRequests' = MapDel(pendingRequests, t.id)
            /\ aHist' = [aHist EXCEPT ![t.id] = Append(@, Reject("timeout", <<>>))]
       ELSE UNCHANGED << pendingRequests, aHist >>
  /\ UNCHANGED << aChild, aProc, nextRequestId, sessionId, perms, permArmedAt,
                  aStdin, now >>

\* pauseRequestTimeout: whether it acts on the request, and the request after it
Pausable(req) == ~req.isPaused /\ req.timeoutId # NoTimer
pauseRequestTimeout(req) ==
  IF Pausable(req) THEN [req EXCEPT !.isPaused = TRUE, !.timeoutId = NoTimer] ELSE req

\* The requests pauseSessionPromptTimeouts / resumeSessionPromptTimeouts visit
Prompts == {id \in DOMAIN pendingRequests : pendingRequests[id].method = "session/prompt"}
Resumable == {id \in Prompts : pendingRequests[id].isPaused}

\* resumeRequestTimeout: Math.max(0, timeoutDuration - (Date.now() - startTime))
remainingTime(req) == Max(0, req.timeoutDuration - (now - req.startTime))
Expired == {id \in Resumable : ~(remainingTime(pendingRequests[id]) > 0)}
resumeTimer(id) == Timer(id, "resumed", now, remainingTime(pendingRequests[id]))

\* handleIncomingRequest for session/request_permission, up to the await:
\* pauseSessionPromptTimeouts(), then AcpAgent.handlePermissionRequest stores
\* the permission and arms its 30 s timer
permissionRequest ==
  /\ AcpFrame
  /\ aProc = "running"
  /\ Len(perms) < MaxPerms
  /\ pendingRequests' =
       [id \in DOMAIN pendingRequests |->
          IF id \in Prompts THEN pauseRequestTimeout(pendingRequests[id])
          ELSE pendingRequests[id]]
  /\ timers' = timers \ {pendingRequests[id].timeoutId :
                           id \in {i \in Prompts : Pausable(pendingRequests[i])}}
  /\ perms' = Append(perms, "waiting")
  /\ permArmedAt' = MapSet(permArmedAt, Len(perms) + 1, now)
  /\ UNCHANGED << aChild, aProc, nextRequestId, sessionId, aHist, aStdin, now >>

\* Option ids, as token sequences
OptionIds == {<<"allow", "_once">>, <<"reject", "_always">>}
reject_once == <<"reject", "_once">>

\* sendResponseMessage({ id, result: { outcome: { outcome, optionId } } })
PermFrame(p, outcome, optionId) ==
  [t |-> "resp", id |-> p, k |-> outcome, optionId |-> optionId]

\* handlePermissionRequest after the await: the finally block runs
\* resumeSessionPromptTimeouts(), then the response is written
permissionSettled(p, outcome, optionId) ==
  /\ perms' = [perms EXCEPT ![p] = "answered"]
  /\ pendingRequests' =
       [id \in DOMAIN pendingRequests \ Expired |->
          IF id \in Resumable
            THEN [pendingRequests[id] EXCEPT !.isPaused = FALSE,
                                             !.timeoutId = resumeTimer(id)]
            ELSE pendingRequests[id]]
  /\ timers' = timers \cup {resumeTimer(id) : id \in Resumable \ Expired}
  /\ aHist' = [i \in AcpIds |->
                 IF i \in Expired THEN Append(aHist[i], Reject("timeout", <<>>))
                 ELSE aHist[i]]
  /\ aStdin' = IF aChild
                 THEN aStdin \cup {PermFrame(p, outcome, optionId)}
                 ELSE aStdin
  /\ permArmedAt' = MapDel(permArmedAt, p)
  /\ UNCHANGED << aChild, aProc, nextRequestId, sessionId, now >>

\* An outcome that ignores the option
outcomeSelected(optionId) == "selected"

\* optionId.includes('reject') ? 'rejected' : 'selected'
outcomeOf(optionId) ==
  IF includes(optionId, <<"reject">>) THEN "rejected" ELSE "selected"

\* AcpAgent.confirmMessage: the user's decision for permission p, while
\* pendingPermissions still holds it (the 30 s timer has not removed it)
permissionDecided(p, optionId) ==
  /\ AcpFrame
  /\ p \in DOMAIN perms /\ perms[p] = "waiting"
  /\ now < permArmedAt[p] + PermissionTimeoutMs
  /\ permissionSettled(p, outcomeOf(optionId), optionId)

\* The 30 s auto-timeout of AcpAgent.handlePermissionRequest: the promise
\* rejects and handlePermissionRequest answers 'rejected'
permissionExpired(p) ==
  /\ AcpFrame
  /\ p \in DOMAIN perms /\ perms[p] = "waiting"
  /\ now >= permArmedAt[p] + PermissionTimeoutMs
  /\ permissionSettled(p, "rejected", reject_once)

\* this.pendingRequests.has(message.id)
AcpLookup(id) == id

\* AcpConnection.handleMessage for a frame without a method: kind is "result"
\* or "error"
handleMessage(id, kind) ==
  /\ AcpFrame
  /\ aProc = "running"
  /\ IF AcpLookup(id) \in DOMAIN pendingRequests
       THEN LET req == pendingRequests[AcpLookup(id)] IN
            /\ pendingRequests' = MapDel(pendingRequests, AcpLookup(id))
            /\ timers' = timers \ {req.timeoutId}
            /\ aHist' = [aHist EXCEPT
                          ![AcpLookup(id)] =
                             Append(@, IF kind = "result" THEN Resolve
                                       ELSE Reject("error", <<>>))]
            /\ sessionId' = IF kind = "result" /\ req.method = "session/new"
                              THEN TRUE ELSE sessionId
       ELSE UNCHANGED << pendingRequests, timers, aHist, sessionId >>
  /\ UNCHANGED << aChild, aProc, nextRequestId, perms, permArmedAt, aStdin, now >>

\* AcpConnection.disconnect
disconnect ==
  /\ AcpFrame
  /\ aChild' = FALSE
  /\ aProc' = IF aChild /\ aProc = "running" THEN "dead" ELSE aProc
  /\ pendingRequests' = EmptyMap
  /\ sessionId' = FALSE
  /\ UNCHANGED << nextRequestId, timers, aHist, perms, permArmedAt, aStdin, now >>

\* The child's 'exit' event: the handler only records a spawn error
acpExit ==
  /\ AcpFrame
  /\ aProc = "running"
  /\ aProc' = "dead"
  /\ UNCHANGED << aChild, nextRequestId, pendingRequests, sessionId, timers,
                  aHist, perms, permArmedAt, aStdin, now >>

\* get isConnected(): this.child !== null && !this.child.killed; killed is set
\* by child.kill() only, and disconnect() drops the child it kills
AcpIsConnected == aChild

\* The ids a response frame may carry: every pending id, and one that is not
AcpResponseIds == DOMAIN pendingRequests \cup {nextRequestId}

AcpNext ==
  \/ Tick
  \/ connect
  \/ \E m \in AcpMethods : sendRequest(m)
  \/ \E t \in timers : initialTimeout(t)
  \/ \E t \in timers : resumedTimeout(t)
  \/ permissionRequest
  \/ \E p \in PermIds, optionId \in OptionIds :
       permissionDecided(p, optionId)
  \/ \E p \in PermIds : permissionExpired(p)
  \/ \E id \in AcpResponseIds, kind \in {"result", "error"} : handleMessage(id, kind)
  \/ disconnect
  \/ acpExit

\* ------------------------------------------------------------ classification
\* The tokens error texts are made of
Tokens ==
  {"403", "Cloudflare", "ETIMEDOUT", "timeout", "timed", "out",
   "ECONNREFUSED", "connection", "refused", "x"}

RECURSIVE TextsOfLen(_)
TextsOfLen(n) ==
  IF n = 0 THEN {<<>>}
  ELSE {Append(s, t) : s \in TextsOfLen(n - 1), t \in Tokens}

\* The error texts of at most MaxLen tokens
Texts == UNION {TextsOfLen(n) : n \in 0..MaxLen}

\* Nothing is being classified
NoText == [text |-> <<>>, code |-> "", prev |-> "", related |-> FALSE, calls |-> 0]

\* fromNetworkError(text).code and isNetworkRelatedError(text), called once
\* more on the same text
classify ==
  /\ cls.calls < MaxClassify
  /\ cls' = [cls EXCEPT !.code = fromNetworkError(cls.text),
                        !.prev = cls.code,
                        !.related = isNetworkRelatedError(cls.text),
                        !.calls = @ + 1]
  /\ UNCHANGED << sys, codexVars, last, acpVars, ag, uiVars >>

ClassifyInit ==
  /\ sys = "classify" /\ CodexInit /\ AcpInit
  /\ cls \in {[NoText EXCEPT !.text = t] : t \in Texts}
  /\ ag = NoAgent /\ UiInit
ClassifyNext == classify
ClassifySpec == ClassifyInit /\ [][ClassifyNext]_vars

\* ================================================================ CodexMcpAgent
\* What a CodexMcpAgent step leaves alone
AgentFrame == UNCHANGED << sys, acpVars, cls, uiVars >>

\* A server error that is no network error and speaks of time
T_slow == <<"tool", "timed", "out">>
AgentTexts == {T_app, T_slow, T_cf}

\* error.message of the Error a request() promise was rejected with
errorMessage(e, c) ==
  CASE e.why = "timeout" -> <<"Codex", "MCP", "request", "timed", "out", method[c]>>
    [] e.why = "closed" -> <<"Codex", "MCP", "connection", "closed">>
    [] e.why = "exit" -> <<"Codex", "process", "exited">>
    [] e.why = "stdin" -> <<"Child", "process", "stdin", "not", "available">>
    [] e.why = "retry" -> <<"Network", "error", "after", "retries">> \o e.msg
    [] OTHER -> e.msg

\* What the awaited promise of call c settled with: its first callback
Outcome(c) == Callbacks(hist[c])[1]

\* The end of an operation of the agent
Finished(op, result, won, why) ==
  [ag EXCEPT !.op = "idle", !.attempt = 0, !.call = 0, !.done = op,
             !.result = result, !.won = won, !.why = why, !.convId = <<>>,
             !.delay = 0]

\* const convId = this.conversationId || this.generateConversationId();
\* this.conversationId = convId: the agent as an operation begins, with the
\* conversation id its first request carries (ag.conv: request -> the id sent)
Began(op) ==
  LET generated == ag.conversationId = <<>>
      convId == IF generated THEN <<"generated", ag.convs + 1>>
                ELSE ag.conversationId
  IN [ag EXCEPT !.op = op, !.attempt = 1, !.call = ncalls + 1,
                !.done = "none", !.result = "none", !.won = FALSE, !.why = "",
                !.convs = IF generated THEN @ + 1 ELSE @,
                !.conversationId = convId, !.convId = convId,
                !.conv = Append(@, convId)]

\* A back-off that waits the same time after every attempt
backoffDelayFlat(attempt) == BackoffBaseMs

\* const delay = 2000 * Math.pow(2, attempt - 1)
backoffDelay(attempt) == BackoffBaseMs * 2 ^ (attempt - 1)

\* CodexMcpAgent.newSession up to its first await: attempt 1
newSession ==
  /\ AgentFrame
  /\ ag.op = "idle"
  /\ requestCall("tools/call")
  /\ ag' = Began("newSession")

\* newSession after the await of an attempt: return on success, break after
\* the last attempt and return the session id all the same, else back off
sessionSettled ==
  /\ AgentFrame
  /\ ag.op = "newSession" /\ Callbacks(hist[ag.call]) # <<>>
  /\ ag' = IF Outcome(ag.call).ev = "resolve"
             THEN Finished("newSession", "returned", TRUE, "")
           ELSE IF ag.attempt = sessionMaxRetries
             THEN Finished("newSession", "returned", FALSE, Outcome(ag.call).why)
           ELSE [ag EXCEPT !.op = "backoff",
                           !.delay = backoffDelay(ag.attempt)]
  /\ last' = ""
  /\ UNCHANGED codexVars

\* newSession after the back-off delay: the next attempt; without a
\* connection this.conn?.request(...) is undefined and the await succeeds
sessionBackoff ==
  /\ AgentFrame
  /\ ag.op = "backoff"
  /\ IF InUse
       THEN /\ requestCall("tools/call")
            /\ ag' = [ag EXCEPT !.op = "newSession", !.attempt = @ + 1,
                                !.call = ncalls + 1, !.delay = 0,
                                !.conv = Append(@, ag.convId)]
       ELSE /\ ag' = Finished("newSession", "returned", FALSE, "")
            /\ last' = ""
            /\ UNCHANGED codexVars

\* CodexMcpAgent.sendPrompt up to its await
sendPrompt ==
  /\ AgentFrame
  /\ ag.op = "idle"
  /\ requestCall("tools/call")
  /\ ag' = Began("sendPrompt")

\* errorMsg.includes('timed out')
isTimeoutMessage(errorMsg) == includes(errorMsg, <<"timed", "out">>)

\* sendPrompt after the await: return, or catch and re-throw unless the
\* message speaks of a timeout
promptSettled ==
  /\ AgentFrame
  /\ ag.op = "sendPrompt" /\ Callbacks(hist[ag.call]) # <<>>
  /\ LET e == Outcome(ag.call) IN
     ag' = IF e.ev = "resolve"
             THEN Finished("sendPrompt", "returned", TRUE, "")
           ELSE IF isTimeoutMessage(errorMessage(e, ag.call))
             THEN Finished("sendPrompt", "returned", FALSE, e.why)
           ELSE Finished("sendPrompt", "threw", FALSE, e.why)
  /\ last' = ""
  /\ UNCHANGED codexVars

\* The methods of inbound notifications: the two processCodexEvent knows, and
\* one it does not
EventMethods == {"codex/event", "elicitation/create", "session/other"}

\* processCodexEvent(env): whether the consumer's onEvent is called
Forwarded(m, hasMsg) ==
  \/ m = "codex/event" /\ hasMsg
  \/ m = "elicitation/create"

\* handleIncoming for a notification (a frame with a method and no id), which
\* hands it to CodexMcpAgent.processCodexEvent
serverEvent(m, hasMsg) ==
  /\ AgentFrame
  /\ proc = "running"
  /\ ag.seen < MaxEvents
  /\ ag' = IF Forwarded(m, hasMsg)
             THEN [ag EXCEPT !.seen = @ + 1, !.events = Append(@, m)]
             ELSE [ag EXCEPT !.seen = @ + 1]
  /\ last' = ""
  /\ UNCHANGED codexVars

\* processCodexEvent for a codex/event whose msg is session_configured with
\* a session_id: the event is forwarded, then the id becomes the conversation id
sessionConfigured(session_id) ==
  /\ AgentFrame
  /\ proc = "running"
  /\ ag.seen < MaxEvents
  /\ ag' = [ag EXCEPT !.seen = @ + 1, !.events = Append(@, "codex/event"),
                      !.conversationId = <<"session", session_id>>]
  /\ last' = ""
  /\ UNCHANGED codexVars

AgentNext ==
  \/ start
  \/ stop
  \/ newSession
  \/ sessionSettled
  \/ sessionBackoff
  \/ sendPrompt
  \/ promptSettled
  \/ \E id \in DOMAIN pending : response(id, "ok", <<>>)
  \/ \E id \in DOMAIN pending, text \in AgentTexts : response(id, "error", text)
  \/ \E c \in Calls : requestTimeout(c)
  \/ processExit(1)
  \/ \E m \in EventMethods, hasMsg \in BOOLEAN : serverEvent(m, hasMsg)
AgentInit == sys = "agent" /\ CodexInit /\ AcpInit /\ cls = NoText /\ ag = NoAgent /\ UiInit
AgentSpec == AgentInit /\ [][AgentNext]_vars

\* Sessions: newSession and sendPrompt, the answers to their requests, and
\* session_configured events
SessionIds == {1, 2}
SessionNext ==
  \/ start
  \/ stop
  \/ newSession
  \/ sessionSettled
  \/ sessionBackoff
  \/ sendPrompt
  \/ promptSettled
  \/ \E id \in DOMAIN pending : response(id, "ok", <<>>)
  \/ \E id \in DOMAIN pending : response(id, "error", T_app)
  \/ \E session_id \in SessionIds : sessionConfigured(session_id)
SessionInit == sys = "session" /\ CodexInit /\ AcpInit /\ cls = NoText /\ ag = NoAgent /\ UiInit
SessionSpec == SessionInit /\ [][SessionNext]_vars

\* ------------------------------------------------------- CodexMessageProcessor
\* The processor turns the events of one conversation into envelopes for the
\* emitter (mp.sink) and stored messages (mp.store).  A text is a sequence of
\* tokens and + is concatenation; a uuid() is the next unused number; null is 0.
\* The dispatcher that routes the events is outside the sources: a section
\* break goes to processReasonSectionBreak, reasoning deltas and reasoning
\* texts go to handleReasoningMessage.
MpFrame == UNCHANGED << sys, codexVars, last, acpVars, cls, ag, acpAgent, rd >>

ReasonDeltas == {<<>>, <<"Hel">>, <<"lo">>}
ContentDeltas == {<<"Hi">>, <<" there">>}
FinalMessages == {<<"Hi">>, <<"Hi", " there">>}

\* An envelope handed to the emitter with its persist argument; the processor
\* sets no isLoadingReplacement on any of them
Envelope(type, msg_id, data, persist) ==
  [type |-> type, msg_id |-> msg_id, data |-> data, persist |-> persist,
   isLoadingReplacement |-> FALSE]

Logged(k, d, id) == [k |-> k, d |-> d, id |-> id]

\* The processor handles one more event of the conversation
Handles ==
  /\ mp.calls < MaxSteps
  /\ MpFrame

\* A turn start that keeps the ids of a turn that was not completed
processTaskStartKeepsIds ==
  LET kept == mp.currentLoadingId # 0 IN
  /\ Handles
  /\ mp' = [mp EXCEPT !.currentLoadingId = IF kept THEN @ ELSE mp.uuids + 1,
                      !.reasoningMsgId = IF kept THEN @ ELSE mp.uuids + 2,
                      !.uuids = IF kept THEN @ ELSE mp.uuids + 2,
                      !.currentReason = <<>>,
                      !.calls = mp.calls + 1,
                      !.log = Append(mp.log, Logged("task_started", <<>>, 0))]

processTaskStart ==
  /\ Handles
  /\ mp' = [mp EXCEPT !.currentLoadingId = mp.uuids + 1,
                      !.reasoningMsgId = mp.uuids + 2,
                      !.uuids = mp.uuids + 2,
                      !.currentReason = <<>>,
                      !.calls = mp.calls + 1,
                      !.log = Append(mp.log, Logged("task_started", <<>>, 0))]

processReasonSectionBreak ==
  /\ Handles
  /\ mp' = [mp EXCEPT !.currentReason = <<>>,
                      !.calls = mp.calls + 1,
                      !.log = Append(mp.log,
                                Logged("agent_reasoning_section_break", <<>>, 0))]

processTaskComplete ==
  /\ Handles
  /\ mp' = [mp EXCEPT !.currentLoadingId = 0,
                      !.reasoningMsgId = 0,
                      !.currentReason = <<>>,
                      !.uuids = mp.uuids + 1,
                      !.sink = Append(mp.sink,
                                 Envelope("finish", mp.uuids + 1, <<>>, FALSE)),
                      !.calls = mp.calls + 1,
                      !.log = Append(mp.log, Logged("task_complete", <<>>, 0))]

\* A reasoning handler that emits the delta alone
handleReasoningDeltaOnly(type, text) ==
  /\ Handles
  /\ mp' = [mp EXCEPT !.currentReason = mp.currentReason \o text,
                      !.sink = Append(mp.sink,
                                 Envelope("thought", mp.reasoningMsgId, text, FALSE)),
                      !.calls = mp.calls + 1,
                      !.log = Append(mp.log, Logged(type, text, mp.reasoningMsgId))]

handleReasoningMessage(type, text) ==
  LET deltaText == IF type \in {"agent_reasoning_delta", "agent_reasoning"}
                   THEN text ELSE <<>>
      reason == mp.currentReason \o deltaText
  IN
  /\ Handles
  /\ mp' = [mp EXCEPT !.currentReason = reason,
                      !.sink = Append(mp.sink,
                                 Envelope("thought", mp.reasoningMsgId, reason, FALSE)),
                      !.calls = mp.calls + 1,
                      !.log = Append(mp.log, Logged(type, text, mp.reasoningMsgId))]

processMessageDelta(delta) ==
  /\ Handles
  /\ mp' = [mp EXCEPT !.sink = Append(mp.sink,
                                 Envelope("content", mp.currentLoadingId, delta, FALSE)),
                      !.calls = mp.calls + 1,
                      !.log = Append(mp.log,
                                Logged("agent_message_delta", delta, mp.currentLoadingId))]

\* The storage step of addOrUpdateMessage: a text message with a msg_id
\* replaces the content of the stored message with that msg_id, any other
\* message with a msg_id replaces the stored message, anything else is inserted
Stored(store, message) ==
  LET at == {i \in DOMAIN store : store[i].msg_id = message.msg_id} IN
  IF message.msg_id # 0 /\ at # {}
    THEN LET i == CHOOSE j \in at : \A l \in at : j <= l IN
         IF message.type = "text"
           THEN [store EXCEPT ![i].content = message.content]
           ELSE [store EXCEPT ![i] = message]
    ELSE Append(store, message)

\* addOrUpdateMessage up to the end of ensureConversationExists: with the
\* conversation in the database the storage step follows at once, otherwise
\* the call waits for chat.history to be read
addOrUpdateMessage(m, message) ==
  IF message.id = 0 THEN m
  ELSE IF m.convInDb THEN [m EXCEPT !.store = Stored(m.store, message)]
  ELSE [m EXCEPT !.loading = Append(m.loading, message)]

processFinalMessage(message) ==
  LET fresh == mp.currentLoadingId = 0
      transformedMessage ==
        [id |-> IF fresh THEN mp.uuids + 1 ELSE mp.currentLoadingId,
         msg_id |-> mp.currentLoadingId, type |-> "text", content |-> message]
      m == [mp EXCEPT !.uuids = IF fresh THEN mp.uuids + 1 ELSE mp.uuids,
                      !.calls = mp.calls + 1,
                      !.log = Append(mp.log,
                                Logged("agent_message", message, mp.currentLoadingId))]
  IN
  /\ Handles
  /\ mp' = addOrUpdateMessage(m, transformedMessage)

\* chat.history was read for the oldest waiting call: the rest of
\* ensureConversationExists creates the conversation, then the storage step
historyLoaded ==
  /\ mp.loading # <<>>
  /\ mp' = [mp EXCEPT !.convInDb = TRUE,
                      !.loading = Tail(mp.loading),
                      !.store = Stored(mp.store, Head(mp.loading))]
  /\ MpFrame

\* The stream errors of the subprocess: a final error and a retry notice of
\* the same error
StreamErrors ==
  { <<"stream", "closed">>, <<"stream", "closed", ";", "retrying", "1/5">> }

\* message.replace(/;\s*retrying ...$/i, '') for a message that includes
\* 'retrying': the text before the "; retrying" suffix
normalizeRetryMessage(message) ==
  IF includes(message, <<"retrying">>)
    THEN IF \E i \in 1..(Len(message) - 1) :
              message[i] = ";" /\ message[i + 1] = "retrying"
           THEN SubSeq(message, 1,
                       (CHOOSE i \in 1..(Len(message) - 1) :
                          message[i] = ";" /\ message[i + 1] = "retrying") - 1)
           ELSE message
    ELSE message

\* generateErrorHash: a function of the normalised text; the texts are
\* numbered
generateErrorHash(message) ==
  IF normalizeRetryMessage(message) = <<"stream", "closed">> THEN 1 ELSE 2

\* The msg_id of an error envelope, as a number below 0:
\* stream_retry_<hash> is -2 * hash, stream_error_<hash> is -2 * hash - 1
processStreamError(message) ==
  LET errorHash == generateErrorHash(message)
      isRetryMessage == includes(message, <<"retrying">>)
      isFinalError == ~isRetryMessage
                      /\ includes(message, <<"error", "sending", "request">>)
      msgId == IF isRetryMessage \/ isFinalError
                 THEN -2 * errorHash ELSE -2 * errorHash - 1
  IN
  /\ Handles
  /\ mp' = [mp EXCEPT !.sink = Append(mp.sink,
                                 Envelope("error", msgId, message, TRUE)),
                      !.calls = mp.calls + 1,
                      !.log = Append(mp.log, Logged("stream_error", message, msgId))]

\* Turns with reasoning and stream errors
TurnNext ==
  \/ processTaskStart
  \/ processTaskComplete
  \/ \E text \in ReasonDeltas \ {<<>>} :
       handleReasoningMessage("agent_reasoning_delta", text)
  \/ \E message \in StreamErrors : processStreamError(message)

\* Reasoning within turns
ReasonNext ==
  \/ processTaskStart
  \/ processReasonSectionBreak
  \/ processTaskComplete
  \/ \E type \in {"agent_reasoning_delta", "agent_reasoning"}, text \in ReasonDeltas :
       handleReasoningMessage(type, text)
ProcessorInit(s) ==
  /\ sys = s /\ CodexInit /\ AcpInit /\ cls = NoText /\ ag = NoAgent
  /\ \E b \in BOOLEAN : mp = [NoProcessor EXCEPT !.convInDb = b]
  /\ acpAgent = NoAcpAgent /\ rd = NoReader
ReasonInit == ProcessorInit("reason")
ReasonSpec == ReasonInit /\ [][ReasonNext]_vars

TurnInit == ProcessorInit("turn")
TurnSpec == TurnInit /\ [][TurnNext]_vars

\* Message content: live deltas and the final message
ComposerNext ==
  \/ processTaskStart
  \/ processTaskComplete
  \/ \E delta \in ContentDeltas : processMessageDelta(delta)
  \/ \E message \in FinalMessages : processFinalMessage(message)
  \/ historyLoaded
ComposerInit == ProcessorInit("composer")
ComposerSpec == ComposerInit /\ [][ComposerNext]_vars

\* ------------------------------------------------------------ AcpAgent
\* The turns of an AcpAgent: sendMessage, the session updates that arrive
\* while its prompt is in flight, and the prompt's end.  null is <<>>, a
\* uuid() is <<"uuid", n>>, the loading id the frontend made for turn t is
\* <<"loading", t>>.
AcpAgentFrame == UNCHANGED << sys, codexVars, last, acpVars, cls, ag, mp, rd >>

ChunkTypes == {"assistant", "thought"}

Emitted(turn, type, ev, msg_id) ==
  [turn |-> turn, type |-> type, ev |-> ev, msg_id |-> msg_id]

\* sendMessage up to the await of connection.sendPrompt, on a connection that
\* is ready; no other prompt is in flight
sendMessage(withLoadingId) ==
  LET t == acpAgent.turn + 1 IN
  /\ acpAgent.prompt = "none"
  /\ acpAgent.turn < MaxTurns
  /\ acpAgent' = [acpAgent EXCEPT
       !.turn = t,
       !.prompt = "sent",
       !.loadingOf = Append(acpAgent.loadingOf,
                            IF withLoadingId THEN <<"loading", t>> ELSE <<>>),
       !.loadingMessageId = IF withLoadingId THEN <<"loading", t>>
                            ELSE acpAgent.loadingMessageId]
  /\ AcpAgentFrame

\* sendMessage after sendPrompt resolved
promptResolved ==
  /\ acpAgent.prompt = "sent"
  /\ acpAgent' = [acpAgent EXCEPT !.prompt = "none",
                                  !.currentAssistantMsgId = <<>>]
  /\ AcpAgentFrame

\* sendMessage after sendPrompt rejected (an error response, a timeout, a
\* closed connection): the catch block emits the error message and returns
promptFailed ==
  /\ acpAgent.prompt = "sent"
  /\ acpAgent' = [acpAgent EXCEPT
       !.prompt = "none",
       !.uuids = acpAgent.uuids + 1,
       !.out = Append(acpAgent.out,
                 Emitted(acpAgent.turn, "error", "message",
                         <<"uuid", acpAgent.uuids + 1>>))]
  /\ AcpAgentFrame

\* handleSessionUpdate with an agent_message_chunk or agent_thought_chunk:
\* handleMessageChunk, with replaceLoadingMessage and emitMessageChunk
handleMessageChunk(type) ==
  LET fresh == <<"uuid", acpAgent.uuids + 1>>
      first == type = "assistant" /\ acpAgent.currentAssistantMsgId = <<>>
      current == IF first THEN fresh ELSE acpAgent.currentAssistantMsgId
      replaces == first /\ acpAgent.loadingMessageId # <<>>
      msgId == IF type = "assistant" THEN current ELSE fresh
  IN
  /\ acpAgent.prompt = "sent"
  /\ acpAgent.chunks < MaxChunks
  /\ acpAgent' = [acpAgent EXCEPT
       !.chunks = acpAgent.chunks + 1,
       !.uuids = IF first \/ type = "thought" THEN acpAgent.uuids + 1
                 ELSE acpAgent.uuids,
       !.currentAssistantMsgId = IF type = "assistant" THEN current
                                 ELSE acpAgent.currentAssistantMsgId,
       !.loadingMessageId = IF replaces THEN <<>> ELSE acpAgent.loadingMessageId,
       !.out = Append(acpAgent.out,
                 IF replaces
                 THEN Emitted(acpAgent.turn, type, "replace", acpAgent.loadingMessageId)
                 ELSE Emitted(acpAgent.turn, type, "chunk", msgId))]
  /\ AcpAgentFrame

AcpAgentNext ==
  \/ \E withLoadingId \in BOOLEAN : sendMessage(withLoadingId)
  \/ promptResolved
  \/ promptFailed
  \/ \E type \in ChunkTypes : handleMessageChunk(type)
AcpAgentInit ==
  /\ sys = "acpAgent" /\ CodexInit /\ AcpInit /\ cls = NoText /\ ag = NoAgent
  /\ UiInit
AcpAgentSpec == AcpAgentInit /\ [][AcpAgentNext]_vars

\* ------------------------------------------------------------ stdout reader
\* The 'data' handler of child.stdout, the same in CodexMcpConnection and
\* AcpConnection.  The child's output is a sequence of bytes: "a" an ASCII
\* byte of a JSON text, "nl" the newline, "hi" and "lo" the two bytes of one
\* two-byte UTF-8 character.  A chunk is a Buffer; toString() decodes it on
\* its own, so a byte sequence cut off by the end or the start of the chunk
\* becomes U+FFFD.  A line that is not blank is parsed and handed over; the
\* parsed frame is known by the characters of its line.
ReaderFrame == UNCHANGED << sys, codexVars, last, acpVars, cls, ag, mp, acpAgent >>

Bytes == {"a", "nl", "hi", "lo"}

\* Buffer.toString(): UTF-8 decoding of one chunk
RECURSIVE toString(_)
toString(d) ==
  IF d = <<>> THEN <<>>
  ELSE IF Head(d) = "hi" /\ Len(d) >= 2 /\ d[2] = "lo"
    THEN <<"U+00E9">> \o toString(Tail(Tail(d)))
  ELSE IF Head(d) \in {"hi", "lo"} THEN <<"U+FFFD">> \o toString(Tail(d))
  ELSE <<Head(d)>> \o toString(Tail(d))

\* What a child writes: well-formed UTF-8
WellFormed(d) == "U+FFFD" \notin Range(toString(d))

\* buffer.split('\n')
RECURSIVE split(_)
split(s) ==
  IF "nl" \notin Range(s) THEN <<s>>
  ELSE LET i == CHOOSE j \in DOMAIN s :
                  s[j] = "nl" /\ \A l \in 1..(j - 1) : s[l] # "nl"
       IN <<SubSeq(s, 1, i - 1)>> \o split(SubSeq(s, i + 1, Len(s)))

\* The lines of a split but the last, without the blank ones: the loop of
\* the handler delivers these
Complete(lines) ==
  SelectSeq(SubSeq(lines, 1, Len(lines) - 1), LAMBDA line : line # <<>>)

\* stdout 'data' with the next n bytes of the child's output
onData(n) ==
  LET d == SubSeq(rd.stream, rd.pos + 1, rd.pos + n)
      lines == split(rd.buffer \o toString(d))
  IN
  /\ n \in 1..(Len(rd.stream) - rd.pos)
  /\ rd' = [rd EXCEPT !.pos = rd.pos + n,
                      !.buffer = lines[Len(lines)],
                      !.lines = rd.lines \o Complete(lines)]
  /\ ReaderFrame

RECURSIVE ByteSeqs(_)
ByteSeqs(n) ==
  IF n = 0 THEN {<<>>}
  ELSE ByteSeqs(n - 1)
         \cup {Append(d, b) : d \in {x \in ByteSeqs(n - 1) : Len(x) = n - 1}, b \in Bytes}

ReaderNext == \E n \in 1..MaxBytes : onData(n)
ReaderInit ==
  /\ sys = "reader" /\ CodexInit /\ AcpInit /\ cls = NoText /\ ag = NoAgent
  /\ mp = NoProcessor /\ acpAgent = NoAcpAgent
  /\ \E d \in ByteSeqs(MaxBytes) :
       WellFormed(d) /\ rd = [NoReader EXCEPT !.stream = d]
ReaderSpec == ReaderInit /\ [][ReaderNext]_vars

\* ------------------------------------------------------------ retries
\* Requests that fail with network errors, the retry timers, and the reset of
\* the network-error state
RetryNext ==
  \/ start
  \/ \E m \in Methods : request(m)
  \/ \E id \in DOMAIN pending, text \in NetTexts : response(id, "error", text)
  \/ \E id \in DOMAIN pending : response(id, "ok", <<>>)
  \/ \E r \in retries : retryTimeout(r)
  \/ resetNetworkError
RetryInit == sys = "retry" /\ CodexInit /\ AcpInit /\ cls = NoText /\ ag = NoAgent /\ UiInit
RetrySpec == RetryInit /\ [][RetryNext]_vars

\* ------------------------------------------------------------ restarts
\* A start() that begins the id counter anew
restartResetsIds ==
  /\ CodexFrame
  /\ proc = "stopped"
  /\ child' = TRUE
  /\ proc' = "running"
  /\ nextId' = 0
  /\ last' = ""
  /\ UNCHANGED << pending, elicitationMap, isPaused, pausedRequests,
                  retryCount, isNetworkError, retries, ncalls, method, origId,
                  timer, hist, stdin, permissionResolvers, waits >>

\* CodexMcpConnection.start called again on a connection that was stopped:
\* it spawns a new child and leaves every field of the object as stop() left
\* it
restart ==
  /\ CodexFrame
  /\ proc = "stopped"
  /\ child' = TRUE
  /\ proc' = "running"
  /\ last' = ""
  /\ UNCHANGED << nextId, pending, elicitationMap, isPaused, pausedRequests,
                  retryCount, isNetworkError, retries, ncalls, method, origId,
                  timer, hist, stdin, permissionResolvers, waits >>

\* One connection object over several stop()/start() and pause/replay cycles
CycleNext ==
  \/ start
  \/ stop
  \/ restart
  \/ \E m \in Methods : request(m)
  \/ \E c \in Calls : requestTimeout(c)
  \/ \E id \in ResponseIds : response(id, "ok", <<>>)
  \/ \E reqId \in ReqIds : approvalRequest("exec", TRUE, reqId, NoCall)
  \/ \E callId \in CallIds : resolvePermission(callId, TRUE)
  \/ \E code \in {0, 1} : processExit(code)
CycleInit == sys = "cycle" /\ CodexInit /\ AcpInit /\ cls = NoText /\ ag = NoAgent /\ UiInit
CycleSpec == CycleInit /\ [][CycleNext]_vars

\* ------------------------------------------------------------ specifications
\* CodexMcpConnection
Init == sys = "codex" /\ CodexInit /\ AcpInit /\ cls = NoText /\ ag = NoAgent /\ UiInit
Next == CodexNext
Spec == Init /\ [][Next]_vars

\* AcpConnection
AcpSpecInit == sys = "acp" /\ CodexInit /\ AcpInit /\ cls = NoText /\ ag = NoAgent /\ UiInit
AcpSpec == AcpSpecInit /\ [][AcpNext]_vars

\* Both correlators
CorrelatorInit == sys \in {"codex", "acp"} /\ CodexInit /\ AcpInit /\ cls = NoText /\ ag = NoAgent /\ UiInit
CorrelatorNext ==
  \/ sys = "codex" /\ CodexNext
  \/ sys = "acp" /\ AcpNext
CorrelatorSpec == CorrelatorInit /\ [][CorrelatorNext]_vars

\* The pause gate with its decisions: approval requests whose call ids may
\* carry the prefixes respondElicitation strips, permission waits and both
\* ways a decision is delivered
GateCallIds == {<<"a">>, <<"patch_", "a">>}
GateReqIds == 0..1
\* The response frames written so far
Responses(out) == Len(SelectSeq(out, LAMBDA f : f.t = "resp"))
GateNext ==
  \/ start
  \/ \E m \in Methods : request(m)
  \/ \E kind \in {"exec", "elicit"}, reqId \in GateReqIds,
        callId \in GateCallIds \cup {NoCall} :
       approvalRequest(kind, TRUE, reqId, callId)
  \/ \E callId \in GateCallIds : waitForPermission(callId)
  \/ \E w \in 1..MaxWaits : permissionTimeout(w)
  \/ \E callId \in GateCallIds, approved \in BOOLEAN : resolvePermission(callId, approved)
  \/ \E callId \in GateCallIds, decision \in Decisions :
       Responses(stdin) < MaxResponds /\ respondElicitation(callId, decision)
GateInit == sys = "gate" /\ CodexInit /\ AcpInit /\ cls = NoText /\ ag = NoAgent /\ UiInit
GateSpec == GateInit /\ [][GateNext]_vars

\* ================================================================ properties
\* The callbacks a call has received so far
Settled(c) == Callbacks(hist[c]) # <<>>

Last(h) == h[Len(h)]

Count(h, ev) == Len(SelectSeq(h, LAMBDA e : e.ev = ev))

\* C1: every call to request() has its resolve and reject callbacks invoked
\* at most once in total, whatever the interleaving of timeout, response,
\* queueing and replay, retry rejection, stop() and process exit.
C1_SettledOnce ==
  \A c \in Calls : Len(Callbacks(hist[c])) <= 1

\* C2: a step of stop() rejects every request that is not yet settled with the
\* closed-connection error and leaves the pending map, the call-id map and the
\* pause queue empty.
C2_StopSettlesEverything ==
  [][stop =>
       /\ pending' = EmptyMap
       /\ elicitationMap' = EmptyMap
       /\ pausedRequests' = <<>>
       /\ \A c \in 1..ncalls :
            ~Settled(c) => Callbacks(hist'[c]) = << Reject("closed", <<>>) >>]_vars

\* C3: when the subprocess exits with a non-zero code, in that same step every
\* pending request is rejected with the process-exit error, the pending map and
\* the call-id map are empty, and the connection reports isConnected = false.
C3_ExitRejectsAll ==
  [][processExit(1) =>
       /\ \A id \in DOMAIN pending :
            hist'[pending[id]] = Append(hist[pending[id]], Reject("exit", <<>>))
       /\ pending' = EmptyMap
       /\ elicitationMap' = EmptyMap
       /\ ~isConnected']_vars

\* C3 witness: two requests were pending when the child exited with code 1
C3_TwoRejectedByExit ==
  /\ ~child /\ proc = "dead" /\ ncalls = 2
  /\ \A c \in 1..2 : hist[c] = << Reject("exit", <<>>) >>

\* C4: when the timer of a request that no response has settled expires, the
\* request has no entry in the pending map afterwards, it is rejected with the
\* timeout error and exactly one stream_error has been emitted for it;
\* also for a request that was queued and replayed under a fresh id.
C4_TimeoutRemovesEntry ==
  [][\A c \in Calls :
       (requestTimeout(c) /\ ~Settled(c)) =>
         /\ c \notin Range(pending')
         /\ Callbacks(hist'[c]) = << Reject("timeout", <<>>) >>
         /\ Count(hist'[c], "stream_error") = 1]_vars

\* C5: a response with id i settles the request registered under id i and no
\* other, with the outcome the response carries; a response whose id matches
\* no pending request changes nothing.  For CodexMcpConnection.handleIncoming
\* and for AcpConnection.handleMessage.
C5_ResponseSettlesItsRequest ==
  [][/\ \A id \in 0..nextId, kind \in {"ok", "error", "embedded"}, text \in ErrTexts :
          response(id, kind, text) =>
            IF id \in DOMAIN pending
              THEN LET c == pending[id] IN
                   /\ pending' = MapDel(pending, id)
                   /\ \A d \in Calls \ {c} : hist'[d] = hist[d] /\ timer'[d] = timer[d]
                   /\ IF kind = "ok"
                        THEN hist'[c] = Append(hist[c], Resolve)
                        ELSE /\ Count(hist'[c], "resolve") = Count(hist[c], "resolve")
                             /\ \/ Last(hist'[c]).ev = "reject"
                                   /\ Count(hist'[c], "reject") = Count(hist[c], "reject") + 1
                                \/ \E r \in retries' \ retries : r.call = c
              ELSE UNCHANGED codexVars
     /\ \A id \in 0..nextRequestId, kind \in {"result", "error"} :
          handleMessage(id, kind) =>
            IF id \in DOMAIN pendingRequests
              THEN /\ pendingRequests' = MapDel(pendingRequests, id)
                   /\ \A d \in AcpIds \ {id} : aHist'[d] = aHist[d]
                   /\ aHist'[id] = Append(aHist[id], IF kind = "result" THEN Resolve
                                                      ELSE Reject("error", <<>>))
              ELSE UNCHANGED acpVars]_vars

\* C5 witness: the response to the second request came first and resolved it,
\* while the first request is still pending under its own id
C5_SecondSettledFirstPending ==
  /\ sys = "codex" /\ ncalls = 2
  /\ hist[2] = << Resolve >>
  /\ hist[1] = <<>>
  /\ DOMAIN pending = {origId[1]}

\* C6: a response whose result embeds an error is handled like a protocol
\* error with the same text: the request is never resolved, the text goes
\* through the same network-error test, and the same stream_error event and
\* rejection (or scheduled retry rejection) follow.
C6_EmbeddedErrorLikeProtocolError ==
  [][\A id \in DOMAIN pending, text \in ErrTexts :
       response(id, "embedded", text) =>
         LET c == pending[id] IN
         /\ protocolError(text, c)
         /\ pending' = MapDel(pending, id)
         /\ timer' = clearTimeout(timer, c)
         /\ Count(hist'[c], "resolve") = Count(hist[c], "resolve")
         /\ \/ Last(hist'[c]).ev = "reject"
            \/ \E r \in retries' : r.call = c]_vars

\* C6 witness: an embedded Cloudflare error has just been classified as a
\* network error and rejected
C6_EmbeddedNetworkErrorRejected ==
  /\ last = "embedded"
  /\ \E c \in Calls :
       /\ hist[c] # <<>>
       /\ Last(hist[c]) = Reject("network", userMessage("CLOUDFLARE_BLOCKED"))

\* C7: an inbound approval request that carries a JSON-RPC id leaves the
\* connection Paused; while it is Paused every request() is queued and writes
\* nothing to stdin; and only resolvePermission() ends the pause.
C7_PauseGate ==
  [][/\ \A kind \in {"patch", "exec", "elicit"}, reqId \in ReqIds,
           callId \in CallIds \cup {NoCall} :
          approvalRequest(kind, TRUE, reqId, callId) => isPaused'
     /\ \A m \in Methods :
          (isPaused /\ request(m)) =>
            /\ stdin' = stdin
            /\ pending' = pending
            /\ pausedRequests' = Append(pausedRequests, ncalls + 1)
            /\ isPaused'
     /\ (isPaused /\ ~isPaused') =>
          \E callId \in CallIds, approved \in BOOLEAN : resolvePermission(callId, approved)]_vars

\* C7 witness: an approval request with a call id arrived and a request issued
\* afterwards sits in the queue, with nothing written for it
C7_QueuedWhilePaused ==
  /\ isPaused
  /\ elicitationMap # EmptyMap
  /\ pausedRequests # <<>>
  /\ \A i \in DOMAIN stdin : stdin[i].call \notin Range(pausedRequests)

\* C8: while the connection is Paused, no request that is pending (so was
\* pending when the pause began) is rejected by its timeout.
C8_NoTimeoutWhilePaused ==
  [][\A c \in Calls :
       ~(isPaused /\ c \in Range(pending) /\ ~Settled(c) /\ requestTimeout(c))]_vars

\* How often a request was rejected by a timeout
Timeouts(h) == Len(SelectSeq(h, LAMBDA e : e = Reject("timeout", <<>>)))

\* Some permission request is waiting for the user's decision
Waiting(ps) == \E p \in DOMAIN ps : ps[p] = "waiting"

\* C9: as long as at least one session/request_permission is waiting for its
\* decision, no pending session/prompt request is rejected with a timeout,
\* also in the step that decides one permission while another still waits.
C9_NoPromptTimeoutWhilePermissionWaits ==
  [][(Waiting(perms) /\ Waiting(perms')) =>
       \A id \in DOMAIN pendingRequests :
         pendingRequests[id].method = "session/prompt" =>
           Timeouts(aHist'[id]) = Timeouts(aHist[id])]_vars

\* The step resumes the suspended prompts: a waiting permission is answered
Resuming == \E p \in DOMAIN perms : perms[p] = "waiting" /\ perms'[p] = "answered"

\* C10: resuming a suspended session/prompt at time t with elapsed =
\* t - startTime: if elapsed >= timeoutDuration it leaves the pending map and
\* is rejected with a timeout at once; otherwise a timer is armed for exactly
\* timeoutDuration - elapsed, the request is no longer paused, and when that
\* timer fires the request is rejected.
C10_ResumeRequestTimeout ==
  [][/\ Resuming =>
          \A id \in Resumable :
            LET req == pendingRequests[id]
                elapsed == now - req.startTime
            IN IF elapsed >= req.timeoutDuration
                 THEN /\ id \notin DOMAIN pendingRequests'
                      /\ aHist'[id] = Append(aHist[id], Reject("timeout", <<>>))
                 ELSE /\ id \in DOMAIN pendingRequests'
                      /\ ~pendingRequests'[id].isPaused
                      /\ pendingRequests'[id].timeoutId =
                           Timer(id, "resumed", now, req.timeoutDuration - elapsed)
                      /\ pendingRequests'[id].timeoutId \in timers'
                      /\ aHist'[id] = aHist[id]
     /\ \A t \in timers :
          (t.kind = "resumed" /\ resumedTimeout(t)) =>
            /\ t.id \notin DOMAIN pendingRequests'
            /\ aHist'[t.id] = Append(aHist[t.id], Reject("timeout", <<>>))]_vars

\* The JSON-RPC id respondElicitation(callId, ...) would find in map, -1 for none
ReqIdFor(map, callId) ==
  LET get(k) == IF k \in DOMAIN map THEN map[k] ELSE -1
  IN OrElse(get(normalize(callId)), get(callId))

\* C11: when respondElicitation delivers the decision for the call id of the
\* approval request that paused the connection, and no approval request is
\* left unanswered, the connection is Flowing again and the queue is sent.
C11_RespondElicitationResumes ==
  [][\A callId \in GateCallIds, decision \in Decisions :
       (/\ isPaused
        /\ callId \in DOMAIN elicitationMap
        /\ respondElicitation(callId, decision)
        /\ elicitationMap' = EmptyMap) =>
         ~isPaused' /\ pausedRequests' = <<>>]_vars

\* C13: when the 30 s timer of waitForPermission(callId) fires with no decision
\* delivered, the wait ends with a denial and the connection is Flowing, its
\* queue sent.
C13_PermissionTimeoutResumes ==
  [][\A w \in DOMAIN waits :
       (/\ waits[w].outcome = "waiting"
        /\ waits[w].callId \in DOMAIN permissionResolvers
        /\ permissionTimeout(w)) =>
         /\ waits'[w].outcome \in {"denied", "timeout"}
         /\ ~isPaused'
         /\ pausedRequests' = <<>>]_vars

\* C15: a respondElicitation for a registered call id (also one that begins
\* with patch_ or elicitation_) writes one response frame, and a second
\* respondElicitation for the same call id right after it would write nothing.
C15_SecondRespondWritesNothing ==
  [][\A callId \in GateCallIds, decision \in Decisions :
       (/\ child
        /\ callId \in DOMAIN elicitationMap
        /\ respondElicitation(callId, decision)) =>
         /\ Len(stdin') = Len(stdin) + 1
         /\ ReqIdFor(elicitationMap', callId) = -1]_vars

\* C16: a resolvePermission for a call id that was already resolved changes
\* nothing: it calls no resolver and does not end a pause.
C16_SecondResolveIsNoOp ==
  [][\A callId \in GateCallIds, approved \in BOOLEAN :
       (/\ callId \notin DOMAIN permissionResolvers
        /\ \E w \in DOMAIN waits :
             waits[w].callId = callId /\ waits[w].outcome \in {"approved", "denied"}
        /\ resolvePermission(callId, approved)) =>
         UNCHANGED codexVars]_vars

\* C17: for an approval request with JSON-RPC id r registered under call id c,
\* respondElicitation(c, d) writes the response with id r and decision d, and
\* afterwards the call-id map no longer contains c.
C17_DecisionReachesItsRequest ==
  [][\A callId \in GateCallIds, decision \in Decisions :
       (/\ child
        /\ callId \in DOMAIN elicitationMap
        /\ respondElicitation(callId, decision)) =>
         /\ stdin' = Append(stdin, RespFrame(elicitationMap[callId], decision))
         /\ callId \notin DOMAIN elicitationMap']_vars


\* The calls of the request frames written so far, in the order written
ReqCalls(out) ==
  LET reqs == SelectSeq(out, LAMBDA f : f.t = "req")
  IN [i \in DOMAIN reqs |-> reqs[i].call]

Increasing(s) == \A i, j \in DOMAIN s : i < j => s[i] < s[j]

IsPrefix(s, t) == Len(s) <= Len(t) /\ SubSeq(t, 1, Len(s)) = s

\* The frames a resume writes: the queue in FIFO order, under the ids drawn
\* from nextId at the resume
Replayed ==
  [k \in 1..Len(pausedRequests) |->
     [t |-> "req", id |-> nextId + k - 1, call |-> pausedRequests[k],
      k |-> method[pausedRequests[k]]]]

\* C12: request frames reach the subprocess in the order request() was called
\* and each at most once (calls are numbered in call order, so the calls of the
\* written frames increase strictly); a step from Paused to Flowing with a
\* subprocess writes exactly the queued requests, in FIFO order, each under an
\* id allocated at the resume, and anything written later comes after them.
C12_ReplayKeepsCallOrder ==
  [][/\ IsPrefix(stdin, stdin')
     /\ Increasing(ReqCalls(stdin'))
     /\ (isPaused /\ ~isPaused' /\ child) =>
          /\ stdin' = stdin \o Replayed
          /\ \A k \in DOMAIN pausedRequests : Replayed[k].id >= nextId]_vars

\* C12 witness: a request queued during Paused was replayed under a new id and
\* a request issued after the resume was written after it
C12_ReplayedThenLater ==
  \E i, j \in DOMAIN stdin :
    /\ i < j
    /\ stdin[i].t = "req" /\ stdin[j].t = "req"
    /\ stdin[i].id # origId[stdin[i].call]
    /\ stdin[j].id = origId[stdin[j].call]
    /\ stdin[i].call < stdin[j].call


\* The responses written for permission request p
RespFor(p, out) == {f \in out : f.t = "resp" /\ f.id = p}

\* No pending session/prompt is left suspended: each one counts down again
PromptTimersRun(reqs, tms) ==
  \A id \in DOMAIN reqs :
    reqs[id].method = "session/prompt" =>
      ~reqs[id].isPaused /\ reqs[id].timeoutId \in tms

\* C14: with a subprocess, a session/request_permission request is answered
\* with exactly one response: the option the user chose before the 30 s ran
\* out (outcome rejected when the option id contains 'reject', selected
\* otherwise), or rejected / reject_once when the 30 s timer fires; nothing
\* else writes a response for it, and after either answer no session/prompt
\* timer is left suspended.
C14_PermissionAnsweredOnce ==
  [][\A p \in PermIds :
       /\ \A optionId \in OptionIds :
            (aChild /\ permissionDecided(p, optionId)) =>
              /\ now < permArmedAt[p] + PermissionTimeoutMs
              /\ RespFor(p, aStdin) = {}
              /\ RespFor(p, aStdin') =
                   {[t |-> "resp", id |-> p, optionId |-> optionId,
                     k |-> IF includes(optionId, <<"reject">>)
                             THEN "rejected" ELSE "selected"]}
              /\ PromptTimersRun(pendingRequests', timers')
       /\ (aChild /\ permissionExpired(p)) =>
            /\ RespFor(p, aStdin) = {}
            /\ RespFor(p, aStdin') =
                 {[t |-> "resp", id |-> p, optionId |-> <<"reject", "_once">>,
                   k |-> "rejected"]}
            /\ PromptTimersRun(pendingRequests', timers')
       /\ RespFor(p, aStdin') # RespFor(p, aStdin) =>
            /\ p \in DOMAIN perms /\ perms[p] = "waiting"
            /\ perms'[p] = "answered"]_vars

\* C14 witness: one permission request was answered with the user's rejecting
\* option, another by the 30 s default, and a session/prompt that was suspended
\* counts down again
C14_DecidedAndDefaulted ==
  /\ \E p \in PermIds :
       [t |-> "resp", id |-> p, optionId |-> <<"reject", "_always">>,
        k |-> "rejected"] \in aStdin
  /\ \E p \in PermIds :
       [t |-> "resp", id |-> p, optionId |-> <<"reject", "_once">>,
        k |-> "rejected"] \in aStdin
  /\ \E id \in DOMAIN pendingRequests :
       /\ pendingRequests[id].method = "session/prompt"
       /\ pendingRequests[id].timeoutId.kind = "resumed"


\* The signatures of the classification, on the lower-cased text
Blocked(lower) == includes(lower, <<"403">>) /\ includes(lower, <<"cloudflare">>)
TimeoutSig(lower) == includes(lower, <<"timeout">>) \/ includes(lower, <<"etimedout">>)
RefusedSig(lower) ==
  includes(lower, <<"connection", "refused">>) \/ includes(lower, <<"econnrefused">>)
TimedOut(lower) == includes(lower, <<"timed", "out">>)

C19_TimedOutIsTimeout ==
  (/\ cls.calls > 0
   /\ TimedOut(toLowerCase(cls.text))
   /\ ~Blocked(toLowerCase(cls.text))) => cls.code = "NETWORK_TIMEOUT"


\* A retry timer is armed for call c in this step
Scheduled(c) == \E r \in retries' \ retries : r.call = c

\* Call c is rejected in this step with the message of its error kind
RejectedNow(c, code) ==
  /\ Len(hist'[c]) > Len(hist[c])
  /\ hist'[c][Len(hist'[c])] = Reject("network", userMessage(code))

\* C20: a network error schedules a retry exactly when its kind is timeout or
\* unknown and fewer than 3 retries were scheduled since the last reset; every
\* other network error (kind blocked or refused, or the failure after the third
\* retry) is rejected at once without a retry; the count of scheduled retries
\* never exceeds 3 and only a reset lowers it.
C20_RetryPolicy ==
  [][/\ retryCount' <= 3
     /\ retryCount' # retryCount =>
          \/ retryCount' = 0 /\ retries' = retries
          \/ retryCount' = retryCount + 1 /\ \E c \in Calls : Scheduled(c)
     /\ retries' \ retries # {} => retryCount' = retryCount + 1
     /\ \A id \in DOMAIN pending, text \in NetTexts :
          response(id, "error", text) =>
            LET c == pending[id]
                code == fromNetworkError(text)
            IN /\ Scheduled(c) <=>
                    /\ code \in {"NETWORK_TIMEOUT", "NETWORK_UNKNOWN"}
                    /\ retryCount < 3
               /\ Scheduled(c) => Callbacks(hist'[c]) = <<>>
               /\ ~Scheduled(c) => RejectedNow(c, code) /\ retryCount' = retryCount]_vars

\* C20 witness: three retries were scheduled since the last reset, and a
\* further request that failed with a timeout error was rejected at once
C20_GaveUpAfterThree ==
  /\ retryCount = 3
  /\ \E c \in Calls :
       /\ hist[c] # <<>>
       /\ hist[c][Len(hist[c])] = Reject("network", userMessage("NETWORK_TIMEOUT"))
  /\ Cardinality({c \in Calls :
                    \E i \in DOMAIN hist[c] :
                      hist[c][i].ev = "network_error"
                        /\ hist[c][i].why \in {"network_timeout", "unknown"}}) = 4


\* Some request is rejected in this step with the message of a network error
\* kind: the retry bound was exceeded or the kind is not retryable
GivenUp ==
  \E c \in Calls :
    /\ Len(hist'[c]) > Len(hist[c])
    /\ Last(hist'[c]).ev = "reject" /\ Last(hist'[c]).why = "network"

\* C22: a request rejected because the retries are used up or its error kind
\* is not retryable leaves hasNetworkError() true; it stays true in every step
\* but resetNetworkError(), after which it is false and the retry counter is 0.
C22_DegradedUntilReset ==
  [][/\ GivenUp => hasNetworkError'
     /\ (hasNetworkError /\ ~resetNetworkError) => hasNetworkError'
     /\ resetNetworkError => ~hasNetworkError' /\ retryCount' = 0]_vars

\* C22 witness: a request was given up, another request failed and resolved
\* later on, and the connection is still degraded
C22_StillDegraded ==
  /\ hasNetworkError
  /\ \E c, d \in Calls :
       /\ c < d
       /\ hist[c] # <<>> /\ Last(hist[c]) = Reject("network", userMessage("NETWORK_REFUSED"))
       /\ hist[d] # <<>> /\ Last(hist[d]) = Resolve

\* C23: a request that resolves while the connection is degraded or the retry
\* counter is not 0 leaves hasNetworkError() false and the retry counter 0.
C23_SuccessClearsDegraded ==
  [][\A id \in DOMAIN pending :
       (/\ hasNetworkError \/ retryCount # 0
        /\ response(id, "ok", <<>>)) => ~hasNetworkError' /\ retryCount' = 0]_vars


\* C21: newSession returns the session id as established only if an attempt
\* of the session-establishment call succeeded; when every attempt failed it
\* rejects.
C21_NewSessionRejectsWhenAllFail ==
  ag.done = "newSession" =>
    IF ag.won THEN ag.result = "returned" ELSE ag.result = "threw"

\* C29: an inbound message whose method is not a recognised one reaches the
\* agent's consumer as an event.
C29_UnknownMethodForwarded ==
  [][\A m \in EventMethods \ {"codex/event", "elicitation/create"},
        hasMsg \in BOOLEAN :
       serverEvent(m, hasMsg) => ag'.events = Append(ag.events, m)]_vars

\* C30: sendPrompt completes without error when its request resolved or was
\* rejected by the request timeout, and re-throws every other rejection.
C30_OnlyTransportTimeoutSwallowed ==
  ag.done = "sendPrompt" =>
    (ag.result = "returned" <=> ag.why \in {"", "timeout"})

\* ------------------------------------------------- properties: reasoning text
ReasonKinds == {"agent_reasoning_delta", "agent_reasoning"}
ReasonResets == {"task_started", "agent_reasoning_section_break", "task_complete"}

\* The thought envelopes the emitter was handed, and the positions in the log
\* of the reasoning events: the j-th envelope answers the j-th event
Thoughts == SelectSeq(mp.sink, LAMBDA e : e.type = "thought")
ReasonPositions ==
  SelectSeq([i \in 1..Len(mp.log) |-> i], LAMBDA i : mp.log[i].k \in ReasonKinds)

\* The text received up to event i since the turn began or a section broke
RECURSIVE SinceReset(_)
SinceReset(i) ==
  IF i = 0 \/ mp.log[i].k \in ReasonResets THEN <<>>
  ELSE SinceReset(i - 1) \o mp.log[i].d

\* The turn event i belongs to: the number of turn starts before it, or 0
\* outside a turn
TurnOf(i) ==
  LET marks == {l \in 1..i : mp.log[l].k \in {"task_started", "task_complete"}}
      starts == {l \in 1..i : mp.log[l].k = "task_started"}
  IN IF marks = {} \/ mp.log[CHOOSE l \in marks : \A n \in marks : n <= l].k
                        = "task_complete"
     THEN 0 ELSE Cardinality(starts)

LogEvents == [i \in DOMAIN mp.log |-> << mp.log[i].k, mp.log[i].d >>]

HiThere ==
  << <<"task_started", <<>> >>, <<"agent_message_delta", <<"Hi">> >>,
     <<"agent_message_delta", <<" there">> >>,
     <<"agent_message", <<"Hi", " there">> >> >>

Replacements == SelectSeq(mp.sink, LAMBDA e : e.isLoadingReplacement)
LiveDeltas == SelectSeq(mp.sink, LAMBDA e : e.type = "content" /\ ~e.isLoadingReplacement)

\* C26: after turn-start, content deltas 'Hi' and ' there' and the final
\* message 'Hi there', the sink has received exactly one replace-loading event
\* and exactly two live deltas, both under the turn's loading-message id and
\* neither persisted, and the store holds exactly one record, 'Hi there'.
C26_HiThereScenario ==
  LogEvents = HiThere /\ mp.loading = <<>> =>
    /\ Len(Replacements) = 1
    /\ Len(LiveDeltas) = 2
    /\ \A i \in DOMAIN LiveDeltas :
         LiveDeltas[i].msg_id = mp.currentLoadingId /\ ~LiveDeltas[i].persist
    /\ Len(mp.store) = 1
    /\ mp.store[1].content = <<"Hi", " there">>

\* The calls of addOrUpdateMessage so far that carried msg_id m, in call order
PersistedAs(m) ==
  SelectSeq(mp.log, LAMBDA e : e.k = "agent_message" /\ e.id = m)

\* C25: once no call of addOrUpdateMessage is waiting, a msg_id that text
\* messages were persisted under has exactly one stored record, and its
\* content is the content of the latest call.
C25_UpsertKeepsLatest ==
  mp.loading = <<>> =>
    \A m \in 1..mp.uuids :
      PersistedAs(m) # <<>> =>
        /\ Cardinality({i \in DOMAIN mp.store : mp.store[i].msg_id = m}) = 1
        /\ \A i \in DOMAIN mp.store :
             mp.store[i].msg_id = m =>
               mp.store[i].content = PersistedAs(m)[Len(PersistedAs(m))].d

\* ------------------------------------------------- properties: AcpAgent turns
\* What the assistant chunks of turn t led to, in order
AssistantOut(t) ==
  SelectSeq(acpAgent.out, LAMBDA e : e.turn = t /\ e.type = "assistant")

\* C27: in every turn that sendMessage started with a loading_id, the first
\* assistant chunk, and no other, is emitted as the replacement of the loading
\* message, and the later assistant chunks share one msg_id that no event of
\* another turn carries; also in a turn that follows a failed prompt.
C27_OneReplacementPerTurn ==
  \A t \in DOMAIN acpAgent.loadingOf :
    acpAgent.loadingOf[t] # <<>> /\ AssistantOut(t) # <<>> =>
      LET a == AssistantOut(t) IN
      /\ a[1].ev = "replace"
      /\ \A i \in 2..Len(a) :
           /\ a[i].ev = "chunk"
           /\ a[i].msg_id = a[Len(a)].msg_id
           /\ \A j \in DOMAIN acpAgent.out :
                acpAgent.out[j].turn # t => acpAgent.out[j].msg_id # a[i].msg_id

\* ------------------------------------------------ properties: stdout reader
\* C28: however the child's output is cut into chunks, the lines handed over
\* so far are the complete lines of what was read so far as one chunk would
\* deliver them, each once and in order, and the unfinished line is held back.
C28_ChunkingIsInvisible ==
  LET lines == split(toString(SubSeq(rd.stream, 1, rd.pos))) IN
  rd.lines = Complete(lines)

\* ------------------------------------------- properties: AcpConnection's end
\* C31: a promise of sendRequest is never settled twice, and once disconnect()
\* was called every request sent before it is settled.
C31_DisconnectSettlesAll ==
  /\ \A id \in AcpIds : Len(Callbacks(aHist[id])) <= 1
  /\ (aProc # "none" /\ ~aChild) =>
       \A id \in AcpIds : id < nextRequestId => Len(Callbacks(aHist[id])) = 1

\* C36: when the ACP subprocess exits on its own, isConnected is false
\* afterwards and every request that was pending has been rejected with a
\* process-exit error and taken out of the pending map.
C36_ExitRejectsPending ==
  [][acpExit =>
       /\ ~AcpIsConnected'
       /\ pendingRequests' = EmptyMap
       /\ \A id \in DOMAIN pendingRequests :
            aHist'[id] = Append(aHist[id], Reject("exit", <<>>))]_vars

\* ------------------------------------------- properties: one request's failure
\* What a step added to the history of call c
Added(c) == SubSeq(hist'[c], Len(hist[c]) + 1, Len(hist'[c]))

\* The ways one request fails: an error response or an embedded error
\* ("error", or "network" / "retry" when the text is a network error's), a
\* timeout
FailureKinds == {"error", "timeout", "network", "retry"}

IdsOf(map, c) == {id \in DOMAIN map : map[id] = c}

\* C32: when one request fails with a protocol error, an embedded error or a
\* timeout, a stream_error event is emitted before its promise is rejected, and
\* the map entry, the timer and the promise of every other request are as
\* they were.
C32_FailureIsIsolated ==
  [][\A c \in Calls :
       (\E i \in DOMAIN Added(c) :
          Added(c)[i].ev = "reject" /\ Added(c)[i].why \in FailureKinds) =>
         /\ \A i \in DOMAIN Added(c) :
              Added(c)[i].ev = "reject" =>
                \E j \in 1..(i - 1) : Added(c)[j].ev = "stream_error"
         /\ \A d \in Calls \ {c} :
              /\ hist'[d] = hist[d]
              /\ timer'[d] = timer[d]
              /\ IdsOf(pending', d) = IdsOf(pending, d)]_vars

\* One request was rejected after its stream_error while another is still
\* pending with its timer armed and its promise untouched
C32_OneFailedOtherPending ==
  \E c, d \in Calls :
    /\ c # d
    /\ Len(hist[c]) >= 2
    /\ hist[c][Len(hist[c])].ev = "reject"
    /\ hist[c][Len(hist[c])].why \in {"error", "timeout"}
    /\ hist[c][Len(hist[c]) - 1].ev = "stream_error"
    /\ IdsOf(pending, d) # {} /\ timer[d] = "armed" /\ hist[d] = <<>>

\* ------------------------------------------- properties: session establishment
\* The step sent one more request of the agent
Sent == Len(ag'.conv) = Len(ag.conv) + 1
SentId == ag'.conv[Len(ag'.conv)]

\* C33: newSession makes at most 3 attempts; an attempt after the first is
\* made only when the one before failed, after a wait of 2000 ms following the
\* first failure and 4000 ms following the second; every attempt carries the
\* conversation id of the first; a first attempt and a sendPrompt carry the
\* agent's conversation id, which, once set, only a session_configured event
\* changes.
C33_SessionAttempts ==
  /\ [](ag.attempt <= 3)
  /\ [][/\ (Sent /\ ag.op = "backoff") =>
            /\ ag.attempt < 3
            /\ Outcome(ag.call).ev = "reject"
            /\ ag.delay = << 2000, 4000 >>[ag.attempt]
            /\ SentId = ag.conv[ag.call]
        /\ (Sent /\ ag.op = "idle") =>
            IF ag.conversationId # <<>> THEN SentId = ag.conversationId
            ELSE SentId \notin Range(ag.conv) /\ ag'.conversationId = SentId
        /\ (ag.op = "newSession" /\ ag'.op = "backoff") =>
            Outcome(ag.call).ev = "reject"
        /\ (ag.conversationId # <<>> /\ ag'.conversationId # ag.conversationId) =>
            \E session_id \in SessionIds : sessionConfigured(session_id)
       ]_vars

\* newSession succeeded on its third attempt, and the sendPrompt after it
\* carries the conversation id of the three attempts
C33_ThirdAttemptThenPrompt ==
  /\ ag.op = "sendPrompt" /\ Len(ag.conv) = 4
  /\ \A c \in 1..4 : ag.conv[c] = ag.conv[1]
  /\ \A c \in 1..2 : Callbacks(hist[c]) # <<>> /\ Outcome(c).ev = "reject"
  /\ Callbacks(hist[3]) # <<>> /\ Outcome(3).ev = "resolve"

\* ------------------------------------------- properties: request ids
\* The ids of the request frames written to the subprocess, in order
ReqIdsOf(out) ==
  LET reqs == SelectSeq(out, LAMBDA f : f.t = "req")
  IN [i \in DOMAIN reqs |-> reqs[i].id]

\* C34: the ids of request frames written to the subprocess increase strictly,
\* so no two frames carry the same id; the id counter never goes back; an entry
\* of the pending map is never replaced by another request, and every id added
\* to the map or written in a frame is one the counter had not yet given out.
C34_IdsStrictlyIncrease ==
  [][/\ Increasing(ReqIdsOf(stdin'))
     /\ nextId' >= nextId
     /\ \A id \in DOMAIN pending' :
          IF id \in DOMAIN pending THEN pending'[id] = pending[id]
          ELSE nextId <= id /\ id < nextId'
     /\ \A i \in DOMAIN stdin' :
          (i > Len(stdin) /\ stdin'[i].t = "req") =>
            nextId <= stdin'[i].id /\ stdin'[i].id < nextId']_vars

\* A request written before a stop() was rejected by it, and a request queued
\* during a pause was replayed after the restart and is pending under the id
\* drawn at the replay
C34_ReplayedAfterRestart ==
  \E i, j \in DOMAIN stdin :
    /\ i < j /\ stdin[i].t = "req" /\ stdin[j].t = "req"
    /\ \E n \in DOMAIN hist[stdin[i].call] :
         hist[stdin[i].call][n] = Reject("closed", <<>>)
    /\ proc = "running"
    /\ stdin[j].id \in DOMAIN pending /\ pending[stdin[j].id] = stdin[j].call
    /\ stdin[j].id # origId[stdin[j].call]

\* ------------------------------------------- properties: unexpected exit
\* C35: when the subprocess exits with a non-zero code or is terminated by a
\* signal (no exit code), in that same step the pending map, the call-id map
\* and the pause queue are empty, the connection is not Paused, and every
\* request issued before the exit has been settled.
C35_ExitClearsSessionState ==
  [][(\E code \in {1, -1} : processExit(code)) =>
       /\ pending' = EmptyMap
       /\ elicitationMap' = EmptyMap
       /\ pausedRequests' = <<>>
       /\ ~isPaused'
       /\ \A c \in 1..ncalls : Callbacks(hist'[c]) # <<>>]_vars

\* ------------------------------------------- properties: turn lifecycle
\* The step handled one more event, of kind k
Handled(k) ==
  /\ Len(mp'.log) = Len(mp.log) + 1
  /\ mp'.log[Len(mp'.log)].k = k

\* Every id the processor held, logged or emitted so far
IdsSoFar ==
  {mp.currentLoadingId, mp.reasoningMsgId}
    \cup {mp.log[i].id : i \in DOMAIN mp.log}
    \cup {mp.sink[i].msg_id : i \in DOMAIN mp.sink}

\* C37: a turn start leaves the accumulated reasoning text empty and the
\* loading-message id and the reasoning-message id non-null, different from
\* each other and from every id held or used before; a turn completion leaves
\* both ids null and emits exactly one envelope, a finish envelope that is not
\* persisted.
C37_TurnLifecycle ==
  [][/\ Handled("task_started") =>
          /\ mp'.currentReason = <<>>
          /\ mp'.currentLoadingId # 0 /\ mp'.reasoningMsgId # 0
          /\ mp'.currentLoadingId # mp'.reasoningMsgId
          /\ {mp'.currentLoadingId, mp'.reasoningMsgId} \cap IdsSoFar = {}
     /\ Handled("task_complete") =>
          /\ mp'.currentLoadingId = 0 /\ mp'.reasoningMsgId = 0
          /\ Len(mp'.sink) = Len(mp.sink) + 1
          /\ SubSeq(mp'.sink, 1, Len(mp.sink)) = mp.sink
          /\ mp'.sink[Len(mp'.sink)].type = "finish"
          /\ ~mp'.sink[Len(mp'.sink)].persist]_vars

\* A turn was started, reasoning text and a stream error came in, and the next
\* turn was started without a completion: the reasoning text is empty and the
\* ids are not those the reasoning of the turn before was emitted under
C37_StartAfterErroredTurn ==
  /\ Len(mp.log) = 4
  /\ mp.log[1].k = "task_started" /\ mp.log[4].k = "task_started"
  /\ \E i, j \in 2..3 :
       /\ mp.log[i].k = "agent_reasoning_delta" /\ mp.log[i].d # <<>>
       /\ mp.log[i].id \notin {0, mp.currentLoadingId, mp.reasoningMsgId}
       /\ mp.log[j].k = "stream_error"
  /\ mp.currentReason = <<>>

\* ------------------------------------------- properties: two upserts
\* C38: when addOrUpdateMessage was called exactly twice with text messages of
\* one msg_id, with content A and then content B, and no call is waiting any
\* more, every stored record of that msg_id has content B, whether or not the
\* calls had to wait for the conversation to be loaded.
C38_SecondUpsertWins ==
  \A m \in 1..mp.uuids :
    (mp.loading = <<>> /\ Len(PersistedAs(m)) = 2) =>
      \A i \in DOMAIN mp.store :
        mp.store[i].msg_id = m => mp.store[i].content = PersistedAs(m)[2].d

\* ------------------------------------------- properties: final reasoning
\* C39: when an agent_reasoning event carries the very text that the
\* reasoning deltas of the turn have accumulated, the thought envelope emitted
\* for it carries that text once.
C39_FinalReasoningOnce ==
  [][(/\ Handled("agent_reasoning")
      /\ mp.reasoningMsgId # 0
      /\ mp.currentReason # <<>>
      /\ mp'.log[Len(mp'.log)].d = mp.currentReason) =>
       /\ Len(mp'.sink) = Len(mp.sink) + 1
       /\ mp'.sink[Len(mp'.sink)].type = "thought"
       /\ mp'.sink[Len(mp'.sink)].data = mp.currentReason]_vars

\* ------------------------------------------- properties: merge key
\* C40: every text record that processFinalMessage handed to storage, stored
\* or still waiting for the conversation, carries a msg_id that is not null
\* and is an id that was allocated.
C40_FinalMessageHasMergeKey ==
  \A rec \in Range(mp.store) \cup Range(mp.loading) :
    rec.type = "text" => rec.msg_id # 0 /\ rec.msg_id \in 1..mp.uuids

====
